---- MODULE Spec2Model ----
(***************************************************************************)
(* Trust Plane: the bridge registry, the credentials manager and the       *)
(* Transition / Exchange handlers of the RPC and HTTP surfaces.            *)
(*                                                                         *)
(* Conventions.  A Rust String is a TLA+ string, "" the empty one.  A      *)
(* formatted message (format!) is the sequence of its fragments, <<>> the  *)
(* empty message.  Option<T> is a sequence of length 0 (None) or 1 (Some). *)
(* A byte vector is <<>> (empty) or <<c>>, c the content the bytes carry.  *)
(***************************************************************************)
EXTENDS Integers, Sequences, FiniteSets, Bags, TLC

VARIABLES
  bridges,      \* BridgeRegistry.bridges: the HashMap id -> BridgeConfig
  credentials,  \* the watch channel of CredentialsManager: value and version
  call,         \* the Transition / Exchange handler under observation
  last,         \* the last registry operation completed, with its result
  live,         \* history: the ids returned by an add and not removed since
  tasks,        \* the concurrent callers of the registry: position, arguments, result
  lock,         \* the RwLock around BridgeRegistry.bridges: its guards
  lin,          \* history: the map after the calls that hold or held the lock,
                \* each applied whole at the step that acquires its guard
  subs,         \* the watch::Receivers handed out by subscribe()
  held,         \* the Arc a reader of current() keeps
  sent,         \* history: the snapshot last handed to new() or update()
  server_config, \* the Config the process runs with
  server,       \* the process: how far main and Server::run have come, its surfaces
  log,          \* the events written to the log at error level
  admin,        \* the last bridge-admin request, with its response
  watcher,      \* what start_watch returned to its caller, if it was called
  discovery     \* the last discovery request answered, with its body

vars ==
  <<bridges, credentials, call, last, live, tasks, lock, lin, subs, held, sent,
    server_config, server, log, admin, watcher, discovery>>

\* the process around the shared state
process == <<server_config, server, log, admin, watcher, discovery>>

\* the holders of credentials outside the handlers
watching == <<subs, held>>

\* the state of the registry's concurrent callers
concurrent == <<tasks, lock, lin>>

(***************************************************************************)
(* Bounds                                                                  *)
(***************************************************************************)
NumUuids == 1     \* distinct ids uuid::Uuid::new_v4 may return
MaxSeq == 1       \* largest sequence number of an input PCA
MaxVersion == 2   \* credential updates after construction

None == <<>>
Some(x) == <<x>>

(***************************************************************************)
(* Bridge configuration types (bridge.rs)                                  *)
(***************************************************************************)
CallerIds == {"b1"}
Uuids == {<<"uuid", n>> : n \in 1..NumUuids}
UuidString(u) == IF u[2] = 1 THEN "uuid-1" ELSE IF u[2] = 2 THEN "uuid-2" ELSE "uuid-3"
UuidStrings == {UuidString(u) : u \in Uuids}
Ids == CallerIds \cup UuidStrings

MappingConfigDefault == [subject_claim |-> "", organization_claim |-> "", custom |-> <<>>]

JwtBridgeConfig ==
  [wellknown_url : {"https://auth.example.com/.well-known/openid-configuration"},
   issuer : {"https://auth.example.com"},
   audiences : {<<"api">>, <<"api", "other">>},
   mapping : {MappingConfigDefault}]

BridgeConfig ==
  [id : Ids \cup {""}, bridge_type : {"Jwt"}, enabled : BOOLEAN, config : JwtBridgeConfig]

(***************************************************************************)
(* BridgeRegistry (bridge.rs).  Every operation takes the RwLock for its   *)
(* whole body, so each is one atomic step on the map.                      *)
(***************************************************************************)
\* faulty variant: the registry is created with an enabled bridge in it
BridgeRegistry_new_seeded ==
  [k \in {"b1"} |-> CHOOSE c \in BridgeConfig : c.id = k /\ c.enabled]

BridgeRegistry_new == <<>>

\* the Vec collected from values().cloned(), in HashMap order: the bag of the
\* stored values, one copy per key
list(b) == [v \in {b[k] : k \in DOMAIN b} |-> Cardinality({k \in DOMAIN b : b[k] = v})]

get(b, id) == IF id \in DOMAIN b THEN Some(b[id]) ELSE None

\* faulty variant: the enabled flag is not looked at
get_enabled_ignores_flag(b, id) == get(b, id)

\* faulty variant: the entry is returned with its flag cleared
get_enabled_clears_flag(b, id) ==
  LET found == get(b, id)
  IN  IF found # None /\ found[1].enabled THEN Some([found[1] EXCEPT !.enabled = FALSE]) ELSE None

get_enabled(b, id) ==
  LET found == get(b, id)
  IN  IF found # None /\ found[1].enabled THEN found ELSE None

insert(b, id, config) == [k \in DOMAIN b \cup {id} |-> IF k = id THEN config ELSE b[k]]

\* faulty variant: the generated id is the key but is not written into the stored config
add_keeps_config_id(b, config, uuid) ==
  LET id == IF config.id = "" THEN UuidString(uuid) ELSE config.id
  IN  [bridges |-> insert(b, id, config), result |-> [ok |-> TRUE, value |-> id]]

\* faulty variant: an entry already stored under the id is kept
add_keeps_existing(b, config, uuid) ==
  LET id == IF config.id = "" THEN UuidString(uuid) ELSE config.id
      stored == IF id \in DOMAIN b THEN b[id] ELSE [config EXCEPT !.id = id]
  IN  [bridges |-> insert(b, id, stored), result |-> [ok |-> TRUE, value |-> id]]

\* faulty variant: an empty config id is used as the key, no id is generated
add_under_config_id(b, config, uuid) ==
  [bridges |-> insert(b, config.id, config), result |-> [ok |-> TRUE, value |-> config.id]]

\* add with the id uuid::Uuid::new_v4 returns when config.id is empty
add(b, config, uuid) ==
  LET id == IF config.id = "" THEN UuidString(uuid) ELSE config.id
      stored == [config EXCEPT !.id = id]
  IN  [bridges |-> insert(b, id, stored), result |-> [ok |-> TRUE, value |-> id]]

\* faulty variant: an absent id is inserted instead of reported
update_inserts_when_absent(b, config) ==
  [bridges |-> insert(b, config.id, config), result |-> [ok |-> TRUE, value |-> <<>>]]

update(b, config) ==
  IF config.id \notin DOMAIN b
  THEN [bridges |-> b, result |-> [ok |-> FALSE, value |-> <<"NotFound", config.id>>]]
  ELSE [bridges |-> insert(b, config.id, config), result |-> [ok |-> TRUE, value |-> <<>>]]

\* faulty variant: success is reported and the entry stays
remove_keeps_entry(b, id) ==
  IF id \notin DOMAIN b
  THEN [bridges |-> b, result |-> [ok |-> FALSE, value |-> <<"NotFound", id>>]]
  ELSE [bridges |-> b, result |-> [ok |-> TRUE, value |-> <<>>]]

remove(b, id) ==
  IF id \notin DOMAIN b
  THEN [bridges |-> b, result |-> [ok |-> FALSE, value |-> <<"NotFound", id>>]]
  ELSE [bridges |-> [k \in DOMAIN b \ {id} |-> b[k]], result |-> [ok |-> TRUE, value |-> <<>>]]

NoOp == [op |-> "none", config |-> None, id |-> "", result |-> None, before |-> <<>>]

\* The caller whose results `last` records is the registry's client under
\* observation (observed); the writes of other clients of the shared registry
\* change the map and leave `last` alone.  `before` is the map the operation
\* found.
Observe(entry, observed) == IF observed THEN entry ELSE last

Add(config, uuid, observed) ==
  LET r == add(bridges, config, uuid)
  IN  /\ bridges' = r.bridges
      /\ last' = Observe([op |-> "add", config |-> Some(config), id |-> config.id,
                          result |-> Some(r.result), before |-> bridges], observed)
      /\ live' = live \cup {r.result.value}
      /\ UNCHANGED <<credentials, call, concurrent, watching, sent, process>>

Update(config, observed) ==
  LET r == update(bridges, config)
  IN  /\ bridges' = r.bridges
      /\ last' = Observe([op |-> "update", config |-> Some(config), id |-> config.id,
                          result |-> Some(r.result), before |-> bridges], observed)
      /\ UNCHANGED <<credentials, call, live, concurrent, watching, sent, process>>

Remove(id, observed) ==
  LET r == remove(bridges, id)
  IN  /\ bridges' = r.bridges
      /\ last' = Observe([op |-> "remove", config |-> None, id |-> id,
                          result |-> Some(r.result), before |-> bridges], observed)
      /\ live' = IF r.result.ok THEN live \ {id} ELSE live
      /\ UNCHANGED <<credentials, call, concurrent, watching, sent, process>>

(***************************************************************************)
(* BridgeRegistry under concurrent callers (bridge.rs).  A call waits for  *)
(* its guard, runs its body step by step while it holds the guard         *)
(* ("body", "insert", "iter") and drops the guard when it returns           *)
(* ("done").  A returned entry is a handle: the copy cloned() made, or, in *)
(* a variant without the copy, the shared entry of the map.                *)
(***************************************************************************)
Tasks == {"t1", "t2"}

\* Both callers write; one of them also reads.  Two readers share the lock
\* and change nothing, so a second reader adds no result a caller can see.
ReadingTasks == {"t1"}

WriteOps == {"add", "update", "remove"}
ReadOps == {"get", "get_enabled", "list"}

RwLock_new == [readers |-> {}, writer |-> None]

RwLock_read_ready(l) == l.writer = None

\* faulty variant: the write guard is handed out whoever holds the lock
RwLock_write_ready_always(l) == TRUE

RwLock_write_ready(l) == l.writer = None /\ l.readers = {}

\* faulty variant: the entry of the map itself is handed out
cloned_shares(b, k) == [shared |-> TRUE, key |-> k, value |-> b[k]]

cloned(b, k) == [shared |-> FALSE, key |-> k, value |-> b[k]]

\* the entry a handle denotes while the map is b
Deref(h, b) ==
  IF ~h.shared THEN h.value
  ELSE IF h.key \in DOMAIN b THEN b[h.key]
  ELSE [h.value EXCEPT !.bridge_type = "freed"]

\* the value a result denotes while the map is b: a write's Result as it is,
\* an Option or a Vec of entries through their handles
Denotes(op, result, b) ==
  CASE op \in WriteOps -> result
    [] op \in {"get", "get_enabled"} ->
         IF result = None THEN None ELSE Some(Deref(result[1], b))
    [] OTHER ->
         [v \in {Deref(h, b) : h \in result} |-> Cardinality({h \in result : Deref(h, b) = v})]

IdleTask ==
  [pc |-> "idle", op |-> "none", config |-> None, id |-> "", todo |-> {},
   result |-> None, returned |-> None, expect |-> None]

\* the call as one step on the map b; config and uuid are Options, Some for
\* the operations that take a config and for add's draw of new_v4
Sequential(b, op, config, id, uuid) ==
  CASE op = "add" -> add(b, config[1], uuid[1])
    [] op = "update" -> update(b, config[1])
    [] op = "remove" -> remove(b, id)
    [] op = "get" -> [bridges |-> b, result |-> get(b, id)]
    [] op = "get_enabled" -> [bridges |-> b, result |-> get_enabled(b, id)]
    [] OTHER -> [bridges |-> b, result |-> list(b)]

ConcurrentFrame == UNCHANGED <<credentials, call, last, watching, sent, process>>

\* A caller enters an operation and bridges.read() / bridges.write() returns
\* its guard; add has resolved an empty id before it asks for the guard.  A
\* caller that waits for the lock has no effect on the others, so the call
\* starts at the step that grants the guard.
Call(t, op, config, id, uuid) ==
  /\ tasks[t].pc \in {"idle", "done"}
  /\ IF op \in ReadOps
     THEN /\ RwLock_read_ready(lock)
          /\ lock' = [lock EXCEPT !.readers = @ \cup {t}]
     ELSE /\ RwLock_write_ready(lock)
          /\ lock' = [lock EXCEPT !.writer = Some(t)]
  /\ LET c == IF op = "add" /\ config[1].id = ""
              THEN [config[1] EXCEPT !.id = UuidString(uuid[1])] ELSE config[1]
         entered == [IdleTask EXCEPT
                       !.pc = IF op = "list" THEN "iter" ELSE "body",
                       !.op = op,
                       !.config = IF op \in {"add", "update"} THEN Some(c) ELSE None,
                       !.id = IF op \in {"add", "update"} THEN c.id
                              ELSE IF op = "list" THEN "" ELSE id,
                       !.todo = IF op = "list" THEN DOMAIN bridges ELSE {},
                       !.result = IF op = "list" THEN {} ELSE None]
         r == Sequential(lin, op, config, id, uuid)
     IN  /\ lin' = r.bridges
         /\ live' = CASE op = "add" -> live \cup {r.result.value}
                      [] op = "remove" /\ r.result.ok -> live \ {id}
                      [] OTHER -> live
         /\ tasks' = [tasks EXCEPT ![t] = [entered EXCEPT !.expect = Some(r.result)]]
  /\ UNCHANGED bridges
  /\ ConcurrentFrame

Release(t) ==
  IF tasks[t].op \in ReadOps
  THEN [lock EXCEPT !.readers = @ \ {t}]
  ELSE [lock EXCEPT !.writer = None]

\* the call returns result: the guard is dropped
Return(t, b, result) ==
  /\ tasks' = [tasks EXCEPT ![t].pc = "done", ![t].todo = {}, ![t].result = result,
                            ![t].returned = Some(Denotes(tasks[t].op, result, b))]
  /\ lock' = Release(t)
  /\ UNCHANGED <<lin, live>>
  /\ ConcurrentFrame

\* add: insert under the write guard, Ok(id)
AddInsert(t) ==
  /\ tasks[t].pc = "body" /\ tasks[t].op = "add"
  /\ bridges' = insert(bridges, tasks[t].id, tasks[t].config[1])
  /\ Return(t, bridges', [ok |-> TRUE, value |-> tasks[t].id])

\* update: contains_key under the write guard; Err(NotFound) returns here
UpdateContainsKey(t) ==
  /\ tasks[t].pc = "body" /\ tasks[t].op = "update"
  /\ IF tasks[t].id \notin DOMAIN bridges
     THEN Return(t, bridges, [ok |-> FALSE, value |-> <<"NotFound", tasks[t].id>>])
     ELSE /\ tasks' = [tasks EXCEPT ![t].pc = "insert"]
          /\ UNCHANGED <<lock, lin, live>>
          /\ ConcurrentFrame
  /\ UNCHANGED bridges

\* update: insert under the same guard, Ok(())
UpdateInsert(t) ==
  /\ tasks[t].pc = "insert"
  /\ bridges' = insert(bridges, tasks[t].id, tasks[t].config[1])
  /\ Return(t, bridges', [ok |-> TRUE, value |-> <<>>])

\* remove: HashMap::remove under the write guard
RemoveEntry(t) ==
  /\ tasks[t].pc = "body" /\ tasks[t].op = "remove"
  /\ LET r == remove(bridges, tasks[t].id)
     IN  /\ bridges' = r.bridges
         /\ Return(t, bridges', r.result)

\* get: HashMap::get and cloned under the read guard; get_enabled filters
\* what get returned
GetEntry(t) ==
  /\ tasks[t].pc = "body" /\ tasks[t].op \in {"get", "get_enabled"}
  /\ LET found == IF tasks[t].id \in DOMAIN bridges
                  THEN Some(cloned(bridges, tasks[t].id)) ELSE None
         result == IF tasks[t].op = "get_enabled" /\ found # None
                      /\ ~Deref(found[1], bridges).enabled
                   THEN None ELSE found
     IN  Return(t, bridges, result)
  /\ UNCHANGED bridges

\* list: values().cloned() yields the next entry, in the HashMap's order
ListNext(t) ==
  /\ tasks[t].pc = "iter"
  /\ \E k \in tasks[t].todo :
       /\ tasks' = [tasks EXCEPT
            ![t].todo = @ \ {k},
            ![t].result = IF k \in DOMAIN bridges THEN @ \cup {cloned(bridges, k)} ELSE @]
  /\ UNCHANGED <<bridges, lock, lin, live>>
  /\ ConcurrentFrame

\* list: collect() returns the Vec
ListCollect(t) ==
  /\ tasks[t].pc = "iter"
  /\ tasks[t].todo = {}
  /\ Return(t, bridges, tasks[t].result)
  /\ UNCHANGED bridges

(***************************************************************************)
(* Credentials (credentials.rs)                                            *)
(***************************************************************************)
Did == "did:web:trustplane.example.com"

KeyMaterials == {"k1", "k2"}

KeyPair(kid, material) == [kid |-> kid, signing_key |-> material]

\* std::fmt::Debug for KeyPair
KeyPair_fmt(key) == [kid |-> key.kid, public_key |-> "[REDACTED]"]

private_key_bytes(key) == key.signing_key

\* the key pair as a JWK, its private component in the member d
private_jwk(key) ==
  [kty |-> "OKP", crv |-> "Ed25519", kid |-> key.kid, x |-> <<"public", key.signing_key>>,
   d |-> private_key_bytes(key)]

\* a Result: Ok(value) or Err(error), error the variant of Error
Ok(value) == [ok |-> TRUE, value |-> Some(value), error |-> ""]
Err(error) == [ok |-> FALSE, value |-> None, error |-> error]

\* KeyPair::from_jwk: the members kid and d are read, the others are not
from_jwk(jwk) ==
  IF "kid" \notin DOMAIN jwk \/ "d" \notin DOMAIN jwk THEN Err("Crypto")
  ELSE Ok(KeyPair(jwk.kid, jwk.d))

\* faulty variant: the private component is exported with the public half
public_jwk_with_private(key) == private_jwk(key)

\* the public half of a key pair, as a JWK
public_jwk(key) == [kty |-> "OKP", crv |-> "Ed25519", kid |-> key.kid, x |-> <<"public", key.signing_key>>]

VerificationMethod(did, key) ==
  [id |-> key.kid, method_type |-> "Ed25519VerificationKey2020", controller |-> did,
   public_key_jwk |-> public_jwk(key)]

DidDocument_new(did, issuer_key, cat_key) ==
  [id |-> did,
   verification_method |-> <<VerificationMethod(did, issuer_key), VerificationMethod(did, cat_key)>>,
   assertion_method |-> <<issuer_key.kid, cat_key.kid>>,
   authentication |-> <<issuer_key.kid, cat_key.kid>>]

\* serde serialization of a DidDocument under its renamed members (the
\* constant @context is left out)
to_json(doc) ==
  [id |-> doc.id,
   verificationMethod |->
     [i \in DOMAIN doc.verification_method |->
        LET m == doc.verification_method[i]
        IN  [id |-> m.id, type |-> m.method_type, controller |-> m.controller,
             publicKeyJwk |-> m.public_key_jwk]],
   assertionMethod |-> doc.assertion_method,
   authentication |-> doc.authentication]

\* serde deserialization: every member must be there, with the members of a
\* verification method; what the members say is not looked at
from_json(json) ==
  IF \/ ~({"id", "verificationMethod", "assertionMethod", "authentication"} \subseteq DOMAIN json)
     \/ \E i \in DOMAIN json.verificationMethod :
          ~({"id", "type", "controller", "publicKeyJwk"}
              \subseteq DOMAIN json.verificationMethod[i])
  THEN Err("Invalid")
  ELSE Ok([id |-> json.id,
           verification_method |->
             [i \in DOMAIN json.verificationMethod |->
                LET m == json.verificationMethod[i]
                IN  [id |-> m.id, method_type |-> m.type, controller |-> m.controller,
                     public_key_jwk |-> m.publicKeyJwk]],
           assertion_method |-> json.assertionMethod,
           authentication |-> json.authentication])

\* the unsigned self-credential; its random id and its date are left out
create_self_credential(did, organization, issuer_key) ==
  [issuer |-> did,
   credentialSubject |-> [id |-> did, type |-> "TrustPlane", organization |-> organization]]

\* KeyPair::generate: the key material is what OsRng yields at the call
generate(kid, rng) == KeyPair(kid, rng)

\* InMemoryProvider::load in the month `date` (Utc::now() as %Y%m), rng the
\* material OsRng yields for the two keys
InMemoryProvider_load(did, organization, date, rng) ==
  LET issuer_key == generate(<<did, "#issuer-key-", date>>, <<"issuer", rng>>)
      cat_key == generate(<<did, "#cat-key-", date>>, <<"cat", rng>>)
  IN  [did |-> did,
       organization |-> organization,
       issuer_key |-> issuer_key,
       cat_key |-> cat_key,
       did_document |-> DidDocument_new(did, issuer_key, cat_key),
       credential |-> create_self_credential(did, organization, issuer_key)]

\* FileProvider::load: files holds, for each of the four paths, the JSON
\* value the file contains, None for a file that cannot be read
FileProvider_load(files) ==
  IF files.issuer_key = None THEN Err("Io")
  ELSE IF ~from_jwk(files.issuer_key[1]).ok THEN Err("Crypto")
  ELSE IF files.cat_key = None THEN Err("Io")
  ELSE IF ~from_jwk(files.cat_key[1]).ok THEN Err("Crypto")
  ELSE IF files.did_doc = None THEN Err("Io")
  ELSE IF ~from_json(files.did_doc[1]).ok THEN Err("Invalid")
  ELSE IF files.credential = None THEN Err("Io")
  ELSE LET did_document == from_json(files.did_doc[1]).value[1]
           credential == files.credential[1]
       IN  Ok([did |-> did_document.id,
               organization |->
                 IF /\ "credentialSubject" \in DOMAIN credential
                    /\ "organization" \in DOMAIN credential.credentialSubject
                 THEN credential.credentialSubject.organization
                 ELSE "Unknown",
               issuer_key |-> from_jwk(files.issuer_key[1]).value[1],
               cat_key |-> from_jwk(files.cat_key[1]).value[1],
               did_document |-> did_document,
               credential |-> credential])

\* the months a load of the in-memory provider can fall in
Months == {"202611", "202612"}

\* what the in-memory provider's load() builds from freshly generated key
\* material, in the one month the other specifications run in
TrustPlaneCredentials(material) == InMemoryProvider_load(Did, "Example", "202611", material)

Snapshots == {TrustPlaneCredentials(m) : m \in KeyMaterials}

Subscribers == {"s1", "s2"}

\* watch::channel: the value, its version, and the version the manager's own
\* receiver has seen (current() borrows and never marks a version seen)
CredentialsManager_new(c) == [value |-> c, version |-> 0, seen |-> 0]

\* faulty variant: the manager hands out the snapshot it was constructed with
CredentialsManager_current_first(ch) == TrustPlaneCredentials("k1")

CredentialsManager_current(ch) == ch.value

\* faulty variant: the manager keeps no receiver of its own
receiver_count_subscribers_only(rxs) == Cardinality({s \in DOMAIN rxs : rxs[s].open})

\* the receivers of the channel: the manager's own and the open subscribers'
receiver_count(rxs) == 1 + Cardinality({s \in DOMAIN rxs : rxs[s].open})

\* watch::Sender::send: an error and no change when no receiver is left
watch_send(ch, receivers, c) ==
  IF receivers = 0 THEN ch ELSE [ch EXCEPT !.value = c, !.version = @ + 1]

CredentialsManager_update(c) ==
  /\ credentials.version < MaxVersion
  /\ credentials' = watch_send(credentials, receiver_count(subs), c)
  /\ sent' = c
  /\ UNCHANGED <<bridges, call, last, live, concurrent, watching, process>>

(***************************************************************************)
(* Holders of credentials (credentials.rs): the subscribers, each with the *)
(* watch::Receiver subscribe() returned, and a reader that keeps the Arc   *)
(* current() returned.  A receiver records the version it has seen; `got`  *)
(* is the snapshot its owner last read and `read` the version the channel  *)
(* had at that read, `skipped` the number of updates its last change       *)
(* notification stood for.                                                 *)
(***************************************************************************)
ClosedReceiver == [open |-> FALSE, version |-> 0, got |-> None, read |-> 0, skipped |-> 0]

\* faulty variant: the new receiver has seen the channel's latest version
CredentialsManager_subscribe_marks_seen(ch) ==
  [open |-> TRUE, version |-> ch.version, got |-> None, read |-> 0, skipped |-> 0]

\* receiver.clone(): the new receiver has seen what the manager's own has
CredentialsManager_subscribe(ch) ==
  [open |-> TRUE, version |-> ch.seen, got |-> None, read |-> 0, skipped |-> 0]

has_changed(ch, rx) == ch.version # rx.version

\* faulty variant: a notification stands for one update, as in a queue
mark_seen_next(ch, rx) == rx.version + 1

\* changed() marks the channel's latest version seen
mark_seen(ch, rx) == ch.version

\* faulty variant: a view of the channel's slot instead of an Arc of its own
Arc_clone_views_slot(v) == [slot |-> TRUE, value |-> v]

\* the Arc current() returns: one more owner of the snapshot it points to
Arc_clone(v) == [slot |-> FALSE, value |-> v]

\* the snapshot a holder reads through its handle while the channel is ch
View(h, ch) == IF h.slot THEN ch.value ELSE h.value

CredentialsFrame ==
  UNCHANGED <<bridges, credentials, call, last, live, concurrent, sent, process>>

Subscribe(s) ==
  /\ ~subs[s].open
  /\ subs' = [subs EXCEPT ![s] = CredentialsManager_subscribe(credentials)]
  /\ UNCHANGED held
  /\ CredentialsFrame

\* changed().await returns: the subscriber is notified once
ReceiverChanged(s) ==
  /\ subs[s].open
  /\ has_changed(credentials, subs[s])
  /\ subs' = [subs EXCEPT ![s].version = mark_seen(credentials, subs[s]),
                          ![s].skipped = credentials.version - subs[s].version]
  /\ UNCHANGED held
  /\ CredentialsFrame

\* borrow().clone(): the subscriber reads the channel's value
ReceiverBorrow(s) ==
  /\ subs[s].open
  /\ subs' = [subs EXCEPT ![s].got = Some(CredentialsManager_current(credentials)),
                          ![s].read = credentials.version]
  /\ UNCHANGED held
  /\ CredentialsFrame

\* the subscriber drops its receiver
ReceiverDrop(s) ==
  /\ subs[s].open
  /\ subs' = [subs EXCEPT ![s] = ClosedReceiver]
  /\ UNCHANGED held
  /\ CredentialsFrame

\* a reader calls current() and keeps the Arc; `taken` is the snapshot it
\* read at the call, `version` the version the channel had then
Current ==
  /\ held' = Some([arc |-> Arc_clone(CredentialsManager_current(credentials)),
                   taken |-> CredentialsManager_current(credentials),
                   version |-> credentials.version])
  /\ UNCHANGED subs
  /\ CredentialsFrame

(***************************************************************************)
(* Request payloads.  A PCA is described by the fields of the data model   *)
(* its bytes carry; the handlers below never decode them.                  *)
(***************************************************************************)
RootSentinel == <<"root">>
PcaHash(t) == <<"hash", t>>

Pca(seq, prev, sig, expired) ==
  [subject |-> "alice", issuer |-> Did, seq |-> seq, prev |-> prev,
   kid |-> "did:web:trustplane.example.com#cat-key", sig |-> sig, expired |-> expired]

RECURSIVE ValidPca(_)
ValidPca(n) ==
  IF n = 0 THEN Pca(0, RootSentinel, "valid", FALSE)
  ELSE Pca(n, PcaHash(ValidPca(n - 1)), "valid", FALSE)

\* the valid PCAs of a chain and the PCAs with one defect: a signature by
\* another key than kid names, bytes altered after signing, expired, a
\* previous-reference that breaks the chain
PcaTokens ==
  UNION {
    { ValidPca(n),
      [ValidPca(n) EXCEPT !.sig = "wrong_key"],
      [ValidPca(n) EXCEPT !.sig = "tampered"],
      [ValidPca(n) EXCEPT !.expired = TRUE],
      [ValidPca(n) EXCEPT !.prev = IF n = 0 THEN PcaHash(ValidPca(0)) ELSE RootSentinel] }
    : n \in 0..MaxSeq }

PcaBytes == {<<>>} \cup {<<t>> : t \in PcaTokens}

Jwt(utf8, aud) == [utf8 |-> utf8, iss |-> "https://auth.example.com", aud |-> aud]
CredentialBytes ==
  {<<>>, <<Jwt(FALSE, <<>>)>>, <<Jwt(TRUE, <<"api">>)>>, <<Jwt(TRUE, <<"other">>)>>}

\* An HTTP body carries bytes as base64 text: "" is <<>>, a non-empty text is
\* either the encoding of some bytes or not base64 at all.
Base64Encode(bytes) == IF bytes = <<>> THEN <<>> ELSE <<[b64 |-> TRUE, data |-> bytes]>>
NotBase64 == <<[b64 |-> FALSE, data |-> <<>>]>>
Base64Decode(text) ==
  IF text = <<>> THEN [ok |-> TRUE, bytes |-> <<>>]
  ELSE IF text[1].b64 THEN [ok |-> TRUE, bytes |-> text[1].data]
  ELSE [ok |-> FALSE, bytes |-> <<>>]

PcaTexts == {Base64Encode(b) : b \in PcaBytes} \cup {NotBase64}
CredentialTexts == {Base64Encode(b) : b \in CredentialBytes} \cup {NotBase64}

(***************************************************************************)
(* The handler under observation.  pca / credential hold the request field *)
(* as received: bytes on the RPC surface, base64 text on the HTTP surface. *)
(***************************************************************************)
NoResponse == [status |-> "", pca |-> <<>>, error |-> <<>>]

NoCall ==
  [op |-> "none", surface |-> "", pc |-> "idle", bridge_id |-> "", pca |-> <<>>,
   credential |-> <<>>, bridge |-> None, creds |-> None, reads |-> {}, response |-> NoResponse]

NewCall(op, surface, bridge_id, pca, credential) ==
  [NoCall EXCEPT !.op = op, !.surface = surface, !.bridge_id = bridge_id, !.pca = pca,
                 !.credential = credential]

Idle == call.pc \in {"idle", "done"}

Respond(c, status, pca, error) ==
  [c EXCEPT !.pc = "done", !.response = [status |-> status, pca |-> pca, error |-> error]]

At(op, surface, pc) == call.op = op /\ call.surface = surface /\ call.pc = pc

Frame == UNCHANGED <<bridges, credentials, last, live, concurrent, watching, sent, process>>

(***************************************************************************)
(* CatService.Transition (cat.rs)                                          *)
(***************************************************************************)
\* faulty variant: the credentials are fetched before the request is validated
CatTransition_fetches_first(pca) ==
  /\ Idle
  /\ LET c == [NewCall("transition", "rpc", "", pca, <<>>) EXCEPT
                 !.creds = Some(CredentialsManager_current(credentials)),
                 !.reads = {"credentials"}]
     IN  call' = IF pca = <<>>
                 THEN Respond(c, "Ok", <<>>, <<"PCA is required">>)
                 ELSE [c EXCEPT !.pc = "respond"]
  /\ Frame

CatTransition(pca) ==
  /\ Idle
  /\ LET c == NewCall("transition", "rpc", "", pca, <<>>)
     IN  call' = IF pca = <<>>
                 THEN Respond(c, "Ok", <<>>, <<"PCA is required">>)
                 ELSE [c EXCEPT !.pc = "current"]
  /\ Frame

CatTransitionCurrent ==
  /\ At("transition", "rpc", "current")
  /\ call' = [call EXCEPT !.creds = Some(CredentialsManager_current(credentials)),
                          !.reads = @ \cup {"credentials"},
                          !.pc = "respond"]
  /\ Frame

\* faulty variant: the input PCA is returned as the new PCA
CatTransitionRespond_echoes_input ==
  /\ At("transition", "rpc", "respond")
  /\ call' = Respond(call, "Ok", call.pca, <<>>)
  /\ Frame

CatTransitionRespond ==
  /\ At("transition", "rpc", "respond")
  /\ call' = Respond(call, "Ok", <<>>, <<"Not implemented">>)
  /\ Frame

(***************************************************************************)
(* POST /v1/cat/transition (handlers.rs)                                   *)
(***************************************************************************)
cat_transition(pca) ==
  /\ Idle
  /\ LET c == NewCall("transition", "http", "", pca, <<>>)
         decoded == Base64Decode(pca)
     IN  call' = IF pca = <<>>
                 THEN Respond(c, "BAD_REQUEST", <<>>, <<"pca is required">>)
                 ELSE IF ~decoded.ok
                 THEN Respond(c, "BAD_REQUEST", <<>>, <<"Invalid base64: ", "DecodeError">>)
                 ELSE [c EXCEPT !.pc = "current"]
  /\ Frame

cat_transition_current ==
  /\ At("transition", "http", "current")
  /\ call' = [call EXCEPT !.creds = Some(CredentialsManager_current(credentials)),
                          !.reads = @ \cup {"credentials"},
                          !.pc = "respond"]
  /\ Frame

\* faulty variant: the answer carries neither PCA bytes nor an error
cat_transition_respond_empty ==
  /\ At("transition", "http", "respond")
  /\ call' = Respond(call, "OK", <<>>, <<>>)
  /\ Frame

cat_transition_respond ==
  /\ At("transition", "http", "respond")
  /\ call' = Respond(call, "NOT_IMPLEMENTED", <<>>, <<"Not implemented">>)
  /\ Frame

(***************************************************************************)
(* BridgeService.Exchange (bridge.rs)                                      *)
(***************************************************************************)
BridgeExchange(bridge_id, credential) ==
  /\ Idle
  /\ LET c == NewCall("exchange", "rpc", bridge_id, <<>>, credential)
     IN  call' = IF bridge_id = ""
                 THEN Respond(c, "Ok", <<>>, <<"bridge_id is required">>)
                 ELSE IF credential = <<>>
                 THEN Respond(c, "Ok", <<>>, <<"credential is required">>)
                 ELSE [c EXCEPT !.pc = "get_enabled"]
  /\ Frame

BridgeExchangeGetEnabled ==
  /\ At("exchange", "rpc", "get_enabled")
  /\ LET bridge == get_enabled(bridges, call.bridge_id)
         c == [call EXCEPT !.reads = @ \cup {"registry"}, !.bridge = bridge]
     IN  call' = IF bridge = None
                 THEN Respond(c, "Ok", <<>>, <<"Bridge not found or disabled: ", call.bridge_id>>)
                 ELSE [c EXCEPT !.pc = "exchange_jwt"]
  /\ Frame

\* exchange_jwt up to and including self.credentials.current()
ExchangeJwtCurrent ==
  /\ At("exchange", "rpc", "exchange_jwt")
  /\ call' = [call EXCEPT !.creds = Some(CredentialsManager_current(credentials)),
                          !.reads = @ \cup {"credentials"},
                          !.pc = "from_utf8"]
  /\ Frame

\* faulty variant: the registry is consulted again when the exchange finishes
ExchangeJwtRespond_looks_up_again ==
  /\ At("exchange", "rpc", "from_utf8")
  /\ call' = IF get_enabled(bridges, call.bridge_id) = None
             THEN Respond(call, "Ok", <<>>, <<"Bridge not found or disabled: ", call.bridge_id>>)
             ELSE IF ~call.credential[1].utf8
             THEN Respond(call, "Ok", <<>>, <<"Invalid UTF-8 in credential">>)
             ELSE Respond(call, "Ok", <<>>, <<"JWT bridge not fully implemented">>)
  /\ Frame

\* the rest of exchange_jwt and the match on its result in exchange
ExchangeJwtRespond ==
  /\ At("exchange", "rpc", "from_utf8")
  /\ call' = IF ~call.credential[1].utf8
             THEN Respond(call, "Ok", <<>>, <<"Invalid UTF-8 in credential">>)
             ELSE Respond(call, "Ok", <<>>, <<"JWT bridge not fully implemented">>)
  /\ Frame

(***************************************************************************)
(* POST /v1/bridge/exchange (handlers.rs)                                  *)
(***************************************************************************)
\* faulty variant: the credential is checked before the bridge id
bridge_exchange_checks_credential_first(bridge_id, credential) ==
  /\ Idle
  /\ LET c == NewCall("exchange", "http", bridge_id, <<>>, credential)
     IN  call' = IF credential = <<>>
                 THEN Respond(c, "BAD_REQUEST", <<>>, <<"credential is required">>)
                 ELSE IF bridge_id = ""
                 THEN Respond(c, "BAD_REQUEST", <<>>, <<"bridge_id is required">>)
                 ELSE [c EXCEPT !.pc = "get_enabled"]
  /\ Frame

bridge_exchange(bridge_id, credential) ==
  /\ Idle
  /\ LET c == NewCall("exchange", "http", bridge_id, <<>>, credential)
     IN  call' = IF bridge_id = ""
                 THEN Respond(c, "BAD_REQUEST", <<>>, <<"bridge_id is required">>)
                 ELSE IF credential = <<>>
                 THEN Respond(c, "BAD_REQUEST", <<>>, <<"credential is required">>)
                 ELSE [c EXCEPT !.pc = "get_enabled"]
  /\ Frame

bridge_exchange_get_enabled ==
  /\ At("exchange", "http", "get_enabled")
  /\ LET bridge == get_enabled(bridges, call.bridge_id)
         c == [call EXCEPT !.reads = @ \cup {"registry"}, !.bridge = bridge]
     IN  call' = IF bridge = None
                 THEN Respond(c, "NOT_FOUND", <<>>, <<"Bridge not found or disabled: ", call.bridge_id>>)
                 ELSE Respond(c, "NOT_IMPLEMENTED", <<>>, <<"Not implemented">>)
  /\ Frame

(***************************************************************************)
(* Discovery (handlers.rs): the two well-known documents, each built from  *)
(* the snapshot current() returns at the request.                          *)
(***************************************************************************)
NoDiscovery == [path |-> "", body |-> None]

DiscoveryFrame ==
  UNCHANGED <<bridges, credentials, call, last, live, concurrent, watching, sent,
              server_config, server, log, admin, watcher>>

\* faulty variant: the document is built from a load of the provider at the request
did_document_loads_again ==
  /\ discovery' = [path |-> "/.well-known/did.json",
                   body |-> Some(to_json(InMemoryProvider_load(Did, "Example", "202611", "k2").did_document))]
  /\ DiscoveryFrame

\* GET /.well-known/did.json
did_document ==
  /\ LET creds == CredentialsManager_current(credentials)
     IN  discovery' = [path |-> "/.well-known/did.json",
                       body |-> Some(to_json(creds.did_document))]
  /\ DiscoveryFrame

\* GET /.well-known/trustplane.json
trustplane_metadata ==
  /\ LET creds == CredentialsManager_current(credentials)
     IN  discovery' = [path |-> "/.well-known/trustplane.json",
                       body |-> Some([did |-> creds.did,
                                      organization |-> creds.organization,
                                      issuer_kid |-> creds.issuer_key.kid,
                                      cat_kid |-> creds.cat_key.kid,
                                      issuer_public_key |-> public_jwk(creds.issuer_key),
                                      cat_public_key |-> public_jwk(creds.cat_key),
                                      credential |-> creds.credential])]
  /\ DiscoveryFrame

(***************************************************************************)
(* start_watch (credentials.rs): the provider's watch is awaited and what  *)
(* it returns is what start_watch returns.  The providers of the           *)
(* repository return Ok(()) at once; the trait lets a provider fail.       *)
(***************************************************************************)
WatchResults == {[ok |-> TRUE, error |-> ""], [ok |-> FALSE, error |-> "Io"]}

CredentialsManager_start_watch(result) ==
  /\ watcher = None
  /\ watcher' = Some(result)
  /\ UNCHANGED <<bridges, credentials, call, last, live, concurrent, watching, sent,
                 server_config, server, log, admin, discovery>>

(***************************************************************************)
(* Configuration (cli.rs, config.rs)                                       *)
(***************************************************************************)
Cli_default ==
  [metrics_enabled |-> TRUE, bridge_admin_enabled |-> FALSE, shutdown_grace_period |-> 30]

Clis == {[Cli_default EXCEPT !.bridge_admin_enabled = b] : b \in BOOLEAN}

\* Config::try_from(cli); the grace period becomes a Duration of that many seconds
Config_try_from(cli) ==
  [metrics_enabled |-> cli.metrics_enabled,
   bridge_admin_enabled |-> cli.bridge_admin_enabled,
   shutdown_grace_period |-> [secs |-> cli.shutdown_grace_period]]

Configs == {Config_try_from(cli) : cli \in Clis}

(***************************************************************************)
(* The process (main.rs, server.rs).  phase: "main" before Server::new,    *)
(* "new" with the server constructed, "select" with the HTTP listener      *)
(* bound and both server futures handed to select!, "serving", "returned"  *)
(* when the block main runs has its result, "exited".  A surface is        *)
(* "unbound", "bound", "serving" or "stopped" (its future dropped).        *)
(***************************************************************************)
ServerStart ==
  [phase |-> "main", http |-> "unbound", grpc |-> "unbound", routes |-> {}, services |-> {},
   failed |-> "", event |-> "", result |-> "", exit |-> None]

AdminPaths == {"/v1/bridge-admin/bridges", "/v1/bridge-admin/bridges/:id"}

\* the routes of the HTTP router, each a method and a path
http_router(cfg) ==
  {<<"GET", "/.well-known/did.json">>, <<"GET", "/.well-known/trustplane.json">>,
   <<"GET", "/health">>, <<"GET", "/ready">>,
   <<"POST", "/v1/cat/transition">>, <<"POST", "/v1/bridge/exchange">>}
  \cup (IF cfg.metrics_enabled THEN {<<"GET", "/metrics">>} ELSE {})
  \cup (IF cfg.bridge_admin_enabled
        THEN {<<"GET", "/v1/bridge-admin/bridges">>,
              <<"GET", "/v1/bridge-admin/bridges/:id">>,
              <<"DELETE", "/v1/bridge-admin/bridges/:id">>}
        ELSE {})

\* faulty variant: the admin service is added whatever the flag says
grpc_builder_adds_admin(cfg) ==
  {"ServerReflection", "CatService", "BridgeService", "BridgeAdminService"}

\* the services added to the tonic server
grpc_builder(cfg) ==
  {"ServerReflection", "CatService", "BridgeService"}
  \cup (IF cfg.bridge_admin_enabled THEN {"BridgeAdminService"} ELSE {})

\* provider.load(): the credentials, or an error (a file that cannot be read or parsed)
LoadResults ==
  {[ok |-> TRUE, value |-> Some(TrustPlaneCredentials("k1")), error |-> ""],
   [ok |-> FALSE, value |-> None, error |-> "Io"]}

\* faulty variant: a failed load falls back to a manager without credentials
from_provider_ignores_error(load) ==
  [ok |-> TRUE,
   manager |-> IF load.ok THEN CredentialsManager_new(load.value[1])
               ELSE [value |-> None, version |-> 0, seen |-> 0]]

\* CredentialsManager::from_provider: provider.load()? then new(credentials)
from_provider(load) ==
  IF load.ok THEN [ok |-> TRUE, manager |-> CredentialsManager_new(load.value[1])]
  ELSE [ok |-> FALSE, manager |-> None]

\* the handler in flight, if any; the process cannot lose a call that is not
InFlight == call.pc \notin {"idle", "done", "aborted"}

ServerFrame ==
  UNCHANGED <<bridges, last, live, concurrent, watching, server_config, admin, watcher,
              discovery>>

\* Server::new(config).await? in the block main runs
Server_new(load) ==
  /\ server.phase = "main"
  /\ LET m == from_provider(load)
     IN  IF m.ok
         THEN /\ credentials' = m.manager
              /\ sent' = CredentialsManager_current(m.manager)
              /\ server' = [server EXCEPT !.phase = "new"]
         ELSE /\ server' = [server EXCEPT !.phase = "returned", !.result = "Err"]
              /\ UNCHANGED <<credentials, sent>>
  /\ UNCHANGED <<call, log>>
  /\ ServerFrame

\* Server::run up to the select!: the router and the services are built and
\* the HTTP listener is bound; a bind error leaves run with `?`
Server_run_bind(bound) ==
  /\ server.phase = "new"
  /\ server' = IF bound
               THEN [server EXCEPT !.phase = "select", !.http = "bound",
                                   !.routes = http_router(server_config),
                                   !.services = grpc_builder(server_config)]
               ELSE [server EXCEPT !.phase = "returned", !.result = "Err", !.failed = "http"]
  /\ UNCHANGED <<credentials, sent, call, log>>
  /\ ServerFrame

\* the message select! logs for the branch that completed
select_error(event) ==
  IF event = "http_error" THEN {"HTTP server error"}
  ELSE IF event = "grpc_error" THEN {"gRPC server error"}
  ELSE {}

\* faulty variant: only the surface that failed stops, run goes on with the other
select_stops_failed_surface(srv, event) ==
  IF event = "http_error" THEN [srv EXCEPT !.event = event, !.http = "stopped"]
  ELSE IF event = "grpc_error" THEN [srv EXCEPT !.event = event, !.grpc = "stopped"]
  ELSE [srv EXCEPT !.phase = "returned", !.event = event, !.result = "Ok",
                   !.http = "stopped", !.grpc = "stopped"]

\* select! returns with its first completed branch: the other futures are
\* dropped and run returns Ok(()) whichever branch it was
select(srv, event) ==
  [srv EXCEPT !.phase = "returned", !.event = event, !.result = "Ok",
              !.http = "stopped", !.grpc = "stopped"]

\* select! polls the two server futures for the first time: axum serves the
\* bound listener, tonic binds its address and serves, or fails to and its
\* future completes with the error
Server_run_serve(bound) ==
  /\ server.phase = "select"
  /\ IF bound
     THEN /\ server' = [server EXCEPT !.phase = "serving", !.http = "serving",
                                      !.grpc = "serving"]
          /\ UNCHANGED log
     ELSE /\ server' = [select(server, "grpc_error") EXCEPT !.failed = "grpc"]
          /\ log' = log \cup select_error("grpc_error")
  /\ UNCHANGED <<credentials, sent, call>>
  /\ ServerFrame

ShutdownEvents == {"http_error", "grpc_error", "signal"}

\* a branch of select! completes while both surfaces serve
Server_run_select(event) ==
  /\ server.phase = "serving"
  /\ server' = select(server, event)
  /\ log' = log \cup select_error(event)
  /\ UNCHANGED <<credentials, sent, call>>
  /\ ServerFrame

\* main: exit(1) on Err, the normal end of main (status 0) otherwise
exit_code(result) == IF result = "Err" THEN 1 ELSE 0

\* main ends: the runtime is dropped and the process exits, with it every
\* task still running
main_exit ==
  /\ server.phase = "returned"
  /\ server' = [server EXCEPT !.phase = "exited", !.exit = Some(exit_code(server.result))]
  /\ log' = IF server.result = "Err" THEN log \cup {"Server error"} ELSE log
  /\ call' = IF InFlight THEN [call EXCEPT !.pc = "aborted"] ELSE call
  /\ UNCHANGED <<credentials, sent>>
  /\ ServerFrame

\* the surfaces accept requests
Serving == server.http = "serving" /\ server.grpc = "serving"

\* the tasks of the runtime run
Running == server.phase \in {"serving", "returned"}

(***************************************************************************)
(* Errors (error.rs).  An Error is <<kind, detail>>.                       *)
(***************************************************************************)
\* Display: the kind's prefix, then the detail
Error_to_string(e) ==
  CASE e[1] = "Config" -> <<"configuration error: ", e[2]>>
    [] e[1] = "NotFound" -> <<"not found: ", e[2]>>
    [] e[1] = "Invalid" -> <<"invalid: ", e[2]>>
    [] e[1] = "Crypto" -> <<"crypto error: ", e[2]>>
    [] e[1] = "Io" -> <<"io error: ", e[2]>>
    [] e[1] = "Transport" -> <<"transport error: ", e[2]>>
    [] OTHER -> <<"internal error: ", e[2]>>

\* From<Error> for tonic::Status
Status_from(e) ==
  CASE e[1] = "NotFound" -> [code |-> "NOT_FOUND", message |-> <<e[2]>>]
    [] e[1] = "Invalid" -> [code |-> "INVALID_ARGUMENT", message |-> <<e[2]>>]
    [] e[1] = "Config" -> [code |-> "FAILED_PRECONDITION", message |-> <<e[2]>>]
    [] OTHER -> [code |-> "INTERNAL", message |-> Error_to_string(e)]

(***************************************************************************)
(* BridgeAdminService (bridge_admin.rs) and the HTTP admin handlers        *)
(* (handlers.rs).  Each takes the map and the request and gives the map    *)
(* and the response.  A response carries the fields of every admin         *)
(* response, those its operation does not have left empty.                 *)
(***************************************************************************)
AdminResponse ==
  [status |-> "OK", listed |-> <<>>, bridge |-> None, id |-> "", success |-> FALSE,
   error |-> <<>>]

\* op is the method of BridgeAdminService called or the HTTP handler the
\* router chose, "" for a request no route led to a handler
NoAdmin ==
  [surface |-> "", op |-> "", method |-> "", path |-> "", id |-> "", bridge |-> None,
   routed |-> FALSE, response |-> [AdminResponse EXCEPT !.status = ""]]

to_proto_bridge_config(c) ==
  [id |-> c.id, type |-> "JWT", enabled |-> c.enabled,
   config |-> Some([wellknown_url |-> c.config.wellknown_url, issuer |-> c.config.issuer,
                    audiences |-> c.config.audiences, mapping |-> Some(c.config.mapping)])]

\* the bridge type of the message: "JWT", another type of the enumeration
\* ("UNSPECIFIED"), or a number that is none of its types ("unknown")
from_proto_bridge_config(p) ==
  IF p.type \notin {"JWT", "UNSPECIFIED"}
  THEN [ok |-> FALSE, config |-> None, message |-> <<"Invalid bridge type">>]
  ELSE IF p.type # "JWT"
  THEN [ok |-> FALSE, config |-> None, message |-> <<"Unsupported bridge type">>]
  ELSE IF p.config = None
  THEN [ok |-> FALSE, config |-> None, message |-> <<"JWT config required for JWT bridge">>]
  ELSE LET jwt == p.config[1]
           mapping == IF jwt.mapping = None THEN MappingConfigDefault ELSE jwt.mapping[1]
       IN  [ok |-> TRUE,
            config |-> Some(
              [id |-> p.id, bridge_type |-> "Jwt", enabled |-> p.enabled,
               config |-> [wellknown_url |-> jwt.wellknown_url, issuer |-> jwt.issuer,
                           audiences |-> jwt.audiences,
                           mapping |-> [subject_claim |->
                                          IF mapping.subject_claim = "" THEN "sub"
                                          ELSE mapping.subject_claim,
                                        organization_claim |->
                                          IF mapping.organization_claim = "" THEN "org"
                                          ELSE mapping.organization_claim,
                                        custom |-> mapping.custom]]]),
            message |-> <<>>]

\* list().into_iter().map(F).collect(): the bag of the images
list_map(b, F(_)) ==
  [y \in {F(b[k]) : k \in DOMAIN b} |-> Cardinality({k \in DOMAIN b : F(b[k]) = y})]

ListBridges(b) ==
  [bridges |-> b, response |-> [AdminResponse EXCEPT !.listed = list_map(b, to_proto_bridge_config)]]

GetBridge(b, id) ==
  LET found == get(b, id)
  IN  [bridges |-> b,
       response |-> IF found # None
                    THEN [AdminResponse EXCEPT !.bridge = Some(to_proto_bridge_config(found[1]))]
                    ELSE [AdminResponse EXCEPT !.error = <<"Bridge not found: ", id>>]]

\* the checks AddBridge and UpdateBridge make before they touch the registry
required(bridge) ==
  IF bridge = None
  THEN [ok |-> FALSE, config |-> None, message |-> <<"Bridge config required">>]
  ELSE from_proto_bridge_config(bridge[1])

AddBridge(b, bridge, uuid) ==
  LET req == required(bridge)
  IN  IF ~req.ok
      THEN [bridges |-> b,
            response |-> [AdminResponse EXCEPT !.status = "INVALID_ARGUMENT",
                                               !.error = req.message]]
      ELSE LET r == add(b, req.config[1], uuid)
           IN  [bridges |-> r.bridges,
                response |-> IF r.result.ok
                             THEN [AdminResponse EXCEPT !.id = r.result.value]
                             ELSE [AdminResponse EXCEPT !.error = Error_to_string(r.result.value)]]

\* faulty variant: the entry is written before the id is looked up
UpdateBridge_writes_first(b, bridge) ==
  LET req == required(bridge)
  IN  IF ~req.ok
      THEN [bridges |-> b,
            response |-> [AdminResponse EXCEPT !.status = "INVALID_ARGUMENT",
                                               !.error = req.message]]
      ELSE LET r == update(b, req.config[1])
           IN  [bridges |-> insert(b, req.config[1].id, req.config[1]),
                response |-> IF r.result.ok
                             THEN [AdminResponse EXCEPT !.success = TRUE]
                             ELSE [AdminResponse EXCEPT !.error = Error_to_string(r.result.value)]]

UpdateBridge(b, bridge) ==
  LET req == required(bridge)
  IN  IF ~req.ok
      THEN [bridges |-> b,
            response |-> [AdminResponse EXCEPT !.status = "INVALID_ARGUMENT",
                                               !.error = req.message]]
      ELSE LET r == update(b, req.config[1])
           IN  [bridges |-> r.bridges,
                response |-> IF r.result.ok
                             THEN [AdminResponse EXCEPT !.success = TRUE]
                             ELSE [AdminResponse EXCEPT !.error = Error_to_string(r.result.value)]]

RemoveBridge(b, id) ==
  LET r == remove(b, id)
  IN  [bridges |-> r.bridges,
       response |-> IF r.result.ok
                    THEN [AdminResponse EXCEPT !.success = TRUE]
                    ELSE [AdminResponse EXCEPT !.error = Error_to_string(r.result.value)]]

AdminOps == {"list", "get", "add", "update", "remove"}

\* the method of BridgeAdminService a request names
BridgeAdminService(op, b, id, bridge, uuid) ==
  CASE op = "list" -> ListBridges(b)
    [] op = "get" -> GetBridge(b, id)
    [] op = "add" -> AddBridge(b, bridge, uuid)
    [] op = "update" -> UpdateBridge(b, bridge)
    [] OTHER -> RemoveBridge(b, id)

BridgeInfo(c) == [id |-> c.id, bridge_type |-> "Jwt", enabled |-> c.enabled]

list_bridges(b) ==
  [bridges |-> b, response |-> [AdminResponse EXCEPT !.listed = list_map(b, BridgeInfo)]]

get_bridge(b, id) ==
  LET found == get(b, id)
  IN  [bridges |-> b,
       response |-> IF found # None
                    THEN [AdminResponse EXCEPT !.bridge = Some(BridgeInfo(found[1]))]
                    ELSE [AdminResponse EXCEPT !.status = "NOT_FOUND",
                                               !.error = <<"Bridge not found: ", id>>]]

remove_bridge(b, id) ==
  LET r == remove(b, id)
  IN  [bridges |-> r.bridges,
       response |-> IF r.result.ok
                    THEN [AdminResponse EXCEPT !.success = TRUE]
                    ELSE [AdminResponse EXCEPT !.status = "NOT_FOUND",
                                               !.error = Error_to_string(r.result.value)]]

AdminFrame ==
  UNCHANGED <<credentials, call, last, live, concurrent, watching, sent, server_config, server,
              log, watcher, discovery>>

\* a request to BridgeAdminService: tonic answers UNIMPLEMENTED for a service
\* that was not added
AdminRpc(op, id, bridge, uuid) ==
  /\ Serving
  /\ LET routed == "BridgeAdminService" \in server.services
         r == IF routed THEN BridgeAdminService(op, bridges, id, bridge, uuid)
              ELSE [bridges |-> bridges,
                    response |-> [AdminResponse EXCEPT !.status = "UNIMPLEMENTED"]]
     IN  /\ bridges' = r.bridges
         /\ admin' = [NoAdmin EXCEPT !.surface = "rpc", !.op = op, !.id = id,
                                     !.bridge = bridge, !.routed = routed,
                                     !.response = r.response]
  /\ AdminFrame

\* a request to an admin path: axum answers 404 for a path without a route
\* and 405 for a path whose routes are for other methods
AdminHttp(method, path, id, bridge) ==
  /\ Serving
  /\ LET routed == <<method, path>> \in server.routes
         known == \E r \in server.routes : r[2] = path
         r == IF ~routed
              THEN [bridges |-> bridges,
                    response |-> [AdminResponse EXCEPT
                                    !.status = IF known THEN "METHOD_NOT_ALLOWED"
                                               ELSE "NOT_FOUND"]]
              ELSE IF path = "/v1/bridge-admin/bridges" THEN list_bridges(bridges)
              ELSE IF method = "GET" THEN get_bridge(bridges, id)
              ELSE remove_bridge(bridges, id)
     IN  /\ bridges' = r.bridges
         /\ admin' = [NoAdmin EXCEPT !.surface = "http",
                                     !.op = IF ~routed THEN ""
                                            ELSE IF path = "/v1/bridge-admin/bridges" THEN "list"
                                            ELSE IF method = "GET" THEN "get"
                                            ELSE "remove",
                                     !.method = method, !.path = path, !.id = id,
                                     !.bridge = bridge, !.routed = routed,
                                     !.response = r.response]
  /\ AdminFrame

(***************************************************************************)
(* Specifications                                                          *)
(***************************************************************************)
Init ==
  /\ bridges = BridgeRegistry_new
  /\ credentials = CredentialsManager_new(TrustPlaneCredentials("k1"))
  /\ call = NoCall
  /\ last = NoOp
  /\ live = {}
  /\ tasks = [t \in Tasks |-> IdleTask]
  /\ lock = RwLock_new
  /\ lin = BridgeRegistry_new
  /\ subs = [s \in Subscribers |-> ClosedReceiver]
  /\ held = None
  /\ sent = TrustPlaneCredentials("k1")
  /\ server_config = Config_try_from(Cli_default)
  /\ server = [ServerStart EXCEPT !.phase = "serving", !.http = "serving", !.grpc = "serving",
                                  !.routes = http_router(server_config),
                                  !.services = grpc_builder(server_config)]
  /\ log = {}
  /\ admin = NoAdmin
  /\ watcher = None
  /\ discovery = NoDiscovery

\* the registry alone, its client's results recorded in `last`
NextRegistry ==
  \/ \E config \in BridgeConfig, uuid \in Uuids : Add(config, uuid, TRUE)
  \/ \E config \in BridgeConfig : Update(config, TRUE)
  \/ \E id \in Ids \cup {""} : Remove(id, TRUE)

SpecRegistry == Init /\ [][NextRegistry]_vars

\* the configurations the other clients write while a handler is in flight
OtherConfigs == {c \in BridgeConfig : c.config.audiences = <<"api">>}

\* the registry shared by concurrent callers
NextConcurrent ==
  \/ \E t \in Tasks, config \in OtherConfigs, uuid \in Uuids :
       Call(t, "add", Some(config), "", Some(uuid))
  \/ \E t \in Tasks, config \in OtherConfigs : Call(t, "update", Some(config), "", None)
  \/ \E t \in Tasks, id \in Ids : Call(t, "remove", None, id, None)
  \/ \E t \in ReadingTasks, op \in {"get", "get_enabled"}, id \in Ids :
       Call(t, op, None, id, None)
  \/ \E t \in ReadingTasks : Call(t, "list", None, "", None)
  \/ \E t \in Tasks : AddInsert(t)
  \/ \E t \in Tasks : UpdateContainsKey(t)
  \/ \E t \in Tasks : UpdateInsert(t)
  \/ \E t \in Tasks : RemoveEntry(t)
  \/ \E t \in Tasks : GetEntry(t)
  \/ \E t \in Tasks : ListNext(t)
  \/ \E t \in Tasks : ListCollect(t)

SpecConcurrent == Init /\ [][NextConcurrent]_vars

\* the credentials manager, its updates, its subscribers and a reader
NextCredentials ==
  \/ \E c \in Snapshots : CredentialsManager_update(c)
  \/ \E s \in Subscribers : Subscribe(s)
  \/ \E s \in Subscribers : ReceiverChanged(s)
  \/ \E s \in Subscribers : ReceiverBorrow(s)
  \/ \E s \in Subscribers : ReceiverDrop(s)
  \/ Current

SpecCredentials == Init /\ [][NextCredentials]_vars

\* readers that keep reading: a subscriber that holds its receiver borrows
\* again, the reader of current() calls it again
FairSpecCredentials ==
  /\ SpecCredentials
  /\ \A s \in Subscribers : WF_vars(ReceiverBorrow(s))
  /\ WF_vars(Current)

\* one handler in flight, interleaved with the registry writes and the
\* credential updates of every other task sharing the state
Next ==
  \/ \E pca \in PcaBytes : CatTransition(pca)
  \/ CatTransitionCurrent
  \/ CatTransitionRespond
  \/ \E pca \in PcaTexts : cat_transition(pca)
  \/ cat_transition_current
  \/ cat_transition_respond
  \/ \E bridge_id \in Ids \cup {""}, credential \in CredentialBytes : BridgeExchange(bridge_id, credential)
  \/ BridgeExchangeGetEnabled
  \/ ExchangeJwtCurrent
  \/ ExchangeJwtRespond
  \/ \E bridge_id \in Ids \cup {""}, credential \in CredentialTexts : bridge_exchange(bridge_id, credential)
  \/ bridge_exchange_get_enabled
  \/ \E config \in OtherConfigs, uuid \in Uuids : Add(config, uuid, FALSE)
  \/ \E config \in OtherConfigs : Update(config, FALSE)
  \/ \E id \in Ids \cup {""} : Remove(id, FALSE)
  \/ \E c \in Snapshots : CredentialsManager_update(c)

Spec == Init /\ [][Next]_vars

\* the manager with a provider's watch started on it
NextWatch ==
  \/ \E result \in WatchResults : CredentialsManager_start_watch(result)
  \/ NextCredentials

SpecWatch == Init /\ [][NextWatch]_vars

\* the process from the start of main, with the Transition and Exchange
\* requests its surfaces take while they serve and, for a registry with an
\* entry, the admin requests that add and remove one
InitServer ==
  /\ bridges = BridgeRegistry_new
  /\ credentials = None
  /\ call = NoCall
  /\ last = NoOp
  /\ live = {}
  /\ tasks = [t \in Tasks |-> IdleTask]
  /\ lock = RwLock_new
  /\ lin = BridgeRegistry_new
  /\ subs = [s \in Subscribers |-> ClosedReceiver]
  /\ held = None
  /\ sent = None
  /\ server_config \in Configs
  /\ server = ServerStart
  /\ log = {}
  /\ admin = NoAdmin
  /\ watcher = None
  /\ discovery = NoDiscovery

AdminUuid == <<"uuid", 1>>
AdminIds == {"b1", UuidString(AdminUuid)}
AdminConfigs == {c \in OtherConfigs : c.id \in {"", "b1"}}

\* the bridge of an AddBridge or UpdateBridge request: absent, of a type the
\* enumeration does not have, or a JWT bridge
AdminBridges ==
  {None}
  \cup {Some([to_proto_bridge_config(c) EXCEPT !.type = "unknown"]) :
          c \in {c \in AdminConfigs : c.id = "b1" /\ c.enabled}}
  \cup {Some(to_proto_bridge_config(c)) : c \in AdminConfigs}

\* a request is accepted while the surfaces serve; a handler that was
\* started goes on as long as the tasks of the runtime run
Requests(pcas, texts, ids, credentialBytes, credentialTexts) ==
  \/ /\ Serving
     /\ \/ \E pca \in pcas : CatTransition(pca)
        \/ \E pca \in texts : cat_transition(pca)
        \/ \E bridge_id \in ids, credential \in credentialBytes :
             BridgeExchange(bridge_id, credential)
        \/ \E bridge_id \in ids, credential \in credentialTexts :
             bridge_exchange(bridge_id, credential)
  \/ /\ Running
     /\ \/ CatTransitionCurrent
        \/ CatTransitionRespond
        \/ cat_transition_current
        \/ cat_transition_respond
        \/ BridgeExchangeGetEnabled
        \/ ExchangeJwtCurrent
        \/ ExchangeJwtRespond
        \/ bridge_exchange_get_enabled

NextServer ==
  \/ \E load \in LoadResults : Server_new(load)
  \/ \E bound \in BOOLEAN : Server_run_bind(bound)
  \/ \E bound \in BOOLEAN : Server_run_serve(bound)
  \/ \E event \in ShutdownEvents : Server_run_select(event)
  \/ main_exit
  \/ Requests(PcaBytes, PcaTexts, Ids \cup {""}, CredentialBytes, CredentialTexts)
  \/ Serving /\ did_document
  \/ Serving /\ trustplane_metadata
  \/ \E c \in {c \in AdminConfigs : c.id = "b1"} :
       AdminRpc("add", "", Some(to_proto_bridge_config(c)), AdminUuid)
  \/ AdminRpc("remove", "b1", None, AdminUuid)

SpecServer == InitServer /\ [][NextServer]_vars

\* main ends once the block it runs has returned
FairSpecServer == SpecServer /\ WF_vars(main_exit)

\* the serving process with the admin flag either way: admin requests on
\* both surfaces next to the Transition and Exchange requests
InitAdmin ==
  /\ bridges = BridgeRegistry_new
  /\ credentials = CredentialsManager_new(TrustPlaneCredentials("k1"))
  /\ call = NoCall
  /\ last = NoOp
  /\ live = {}
  /\ tasks = [t \in Tasks |-> IdleTask]
  /\ lock = RwLock_new
  /\ lin = BridgeRegistry_new
  /\ subs = [s \in Subscribers |-> ClosedReceiver]
  /\ held = None
  /\ sent = TrustPlaneCredentials("k1")
  /\ server_config \in Configs
  /\ server = [ServerStart EXCEPT !.phase = "serving", !.http = "serving", !.grpc = "serving",
                                  !.routes = http_router(server_config),
                                  !.services = grpc_builder(server_config)]
  /\ log = {}
  /\ admin = NoAdmin
  /\ watcher = None
  /\ discovery = NoDiscovery

NextAdmin ==
  \/ AdminRpc("list", "", None, AdminUuid)
  \/ \E op \in {"get", "remove"}, id \in AdminIds : AdminRpc(op, id, None, AdminUuid)
  \/ \E op \in {"add", "update"}, bridge \in AdminBridges : AdminRpc(op, "", bridge, AdminUuid)
  \/ AdminHttp("GET", "/v1/bridge-admin/bridges", "", None)
  \/ \E method \in {"GET", "DELETE"}, id \in AdminIds :
       AdminHttp(method, "/v1/bridge-admin/bridges/:id", id, None)
  \/ \E bridge \in AdminBridges \ {None} :
       \/ AdminHttp("POST", "/v1/bridge-admin/bridges", "", bridge)
       \/ AdminHttp("PUT", "/v1/bridge-admin/bridges/:id", bridge[1].id, bridge)
  \/ Requests({<<>>, <<ValidPca(0)>>}, {<<>>, NotBase64, Base64Encode(<<ValidPca(0)>>)},
              {"", "b1"}, {<<>>, <<Jwt(TRUE, <<"api">>)>>},
              {NotBase64, Base64Encode(<<Jwt(TRUE, <<"api">>)>>)})

SpecAdmin == InitAdmin /\ [][NextAdmin]_vars

(***************************************************************************)
(* The manager over the providers of the library: built from a load of the *)
(* in-memory or of the file provider, and republished through update with  *)
(* what a later load returned.                                             *)
(***************************************************************************)
OtherDid == "did:web:other.example.com"

\* the key files: a private JWK whose kid is under the did, one whose kid is
\* under another did, and for the issuer a public JWK or no readable file
KeyFiles(role, material) ==
  {Some(private_jwk(generate(<<did, role, "202611">>, material))) : did \in {Did, OtherDid}}

\* the identity document files: the document of the two keys, one whose
\* assertionMethod names a method it does not have, and one that lacks members
DidDocumentFiles ==
  LET issuer_key == generate(<<Did, "#issuer-key-", "202611">>, <<"issuer", "k1">>)
      cat_key == generate(<<Did, "#cat-key-", "202611">>, <<"cat", "k1">>)
      json == to_json(DidDocument_new(Did, issuer_key, cat_key))
  IN  {Some(json),
       Some([json EXCEPT !.assertionMethod = <<<<Did, "#retired-key">>>>]),
       Some([id |-> Did])}

CredentialFiles ==
  {Some(create_self_credential(Did, "Example", generate(<<Did, "#issuer-key-", "202611">>, "k1"))),
   Some([issuer |-> Did])}

Files ==
  [issuer_key : KeyFiles("#issuer-key-", <<"issuer", "k1">>)
                  \cup {None, Some(public_jwk(generate(<<Did, "#issuer-key-", "202611">>, "k1")))},
   cat_key : KeyFiles("#cat-key-", <<"cat", "k1">>),
   did_doc : DidDocumentFiles,
   credential : CredentialFiles]

ProviderLoads ==
  {Ok(InMemoryProvider_load(Did, "Example", date, rng)) : date \in Months, rng \in KeyMaterials}
  \cup {FileProvider_load(files) : files \in Files}

\* CredentialsManager::from_provider on a manager-less library user
CredentialsManager_from_provider(load) ==
  /\ credentials = None
  /\ from_provider(load).ok
  /\ credentials' = from_provider(load).manager
  /\ sent' = load.value[1]
  /\ UNCHANGED <<bridges, call, last, live, concurrent, watching, process>>

InitProvider == InitServer /\ server_config = Config_try_from(Cli_default)

NextProvider ==
  \/ \E load \in ProviderLoads : CredentialsManager_from_provider(load)
  \/ \E load \in ProviderLoads :
       credentials # None /\ load.ok /\ CredentialsManager_update(load.value[1])
  \/ credentials # None /\ Current

SpecProvider == InitProvider /\ [][NextProvider]_vars

(***************************************************************************)
(* Vocabulary of the properties                                            *)
(***************************************************************************)
Done == call.pc = "done"

\* the bytes a request or response field carries, whatever the surface
BytesOf(field) == IF call.surface = "http" THEN Base64Decode(field).bytes ELSE field
InputPca == BytesOf(call.pca)
InputCredential == BytesOf(call.credential)
OutputPca == BytesOf(call.response.pca)

TransitionDone == Done /\ call.op = "transition"
ExchangeDone == Done /\ call.op = "exchange"

\* The error kind a response reports: on the HTTP surface the status code,
\* on the RPC surface, whose responses are all Ok, the in-band message.
ErrorKind ==
  IF call.response.error = <<>> THEN "None"
  ELSE IF call.surface = "http"
  THEN CASE call.response.status = "BAD_REQUEST" -> "Invalid"
         [] call.response.status = "NOT_FOUND" -> "NotFound"
         [] call.response.status = "INTERNAL_SERVER_ERROR" -> "Crypto"
         [] OTHER -> "NotImplemented"
  ELSE CASE call.response.error[1] \in {"PCA is required", "bridge_id is required",
                                         "credential is required",
                                         "Invalid UTF-8 in credential"} -> "Invalid"
         [] call.response.error[1] = "Bridge not found or disabled: " -> "NotFound"
         [] OTHER -> "NotImplemented"

Range(seq) == {seq[i] : i \in DOMAIN seq}

\* the admin request an HTTP method and path stand for, were the HTTP routes
\* the RPC operations one for one
AdminOperation(method, path) ==
  CASE method = "GET" /\ path = "/v1/bridge-admin/bridges" -> "list"
    [] method = "GET" /\ path = "/v1/bridge-admin/bridges/:id" -> "get"
    [] method = "POST" /\ path = "/v1/bridge-admin/bridges" -> "add"
    [] method = "PUT" /\ path = "/v1/bridge-admin/bridges/:id" -> "update"
    [] method = "DELETE" /\ path = "/v1/bridge-admin/bridges/:id" -> "remove"
    [] OTHER -> ""

(***************************************************************************)
(* C1  Chain monotonicity: a Transition whose input is a valid, unexpired, *)
(* correctly signed PCA with sequence n answers with a PCA whose sequence  *)
(* is n + 1 and whose previous-reference is the hash of the input.         *)
(***************************************************************************)
C1_ChainMonotonicity ==
  (TransitionDone /\ InputPca # <<>> /\ InputPca[1] = ValidPca(InputPca[1].seq))
    => /\ OutputPca # <<>>
       /\ OutputPca[1].seq = InputPca[1].seq + 1
       /\ OutputPca[1].prev = PcaHash(InputPca[1])

(***************************************************************************)
(* C2  Verification soundness: a Transition whose input PCA is signed by   *)
(* another key than its kid names, or was altered after signing, fails     *)
(* with an Invalid or Crypto error and returns no PCA bytes.               *)
(***************************************************************************)
C2_VerificationSoundness ==
  (TransitionDone /\ InputPca # <<>> /\ InputPca[1].sig \in {"wrong_key", "tampered"})
    => /\ ErrorKind \in {"Invalid", "Crypto"}
       /\ OutputPca = <<>>

(***************************************************************************)
(* C3  Root uniqueness: a PCA returned by Exchange has sequence 0 and the  *)
(* root sentinel as previous-reference; Transition rejects an input with   *)
(* sequence 0 and a non-root previous-reference, and never returns a PCA   *)
(* with sequence 0.                                                        *)
(***************************************************************************)
C3_RootUniqueness ==
  /\ (ExchangeDone /\ OutputPca # <<>>)
       => (OutputPca[1].seq = 0 /\ OutputPca[1].prev = RootSentinel)
  /\ (TransitionDone /\ OutputPca # <<>>) => OutputPca[1].seq # 0
  /\ (TransitionDone /\ InputPca # <<>> /\ InputPca[1].seq = 0
        /\ InputPca[1].prev # RootSentinel)
       => (OutputPca = <<>> /\ call.response.error # <<>>)

C3_Witness ==
  /\ TransitionDone /\ call.surface = "rpc"
  /\ InputPca # <<>> /\ InputPca[1].seq = 0 /\ InputPca[1].prev # RootSentinel
  /\ call.response.error # <<>>

(***************************************************************************)
(* C4  Fail closed: a Transition whose input PCA has sequence > 0 (the     *)
(* request has the one pca field, so no prior PCA is ever supplied) fails  *)
(* with Invalid and returns no PCA.                                        *)
(***************************************************************************)
C4_FailClosed ==
  (TransitionDone /\ InputPca # <<>> /\ InputPca[1].seq > 0)
    => /\ ErrorKind = "Invalid"
       /\ OutputPca = <<>>

(***************************************************************************)
(* C5  Cat.Transition (RPC) with empty pca bytes: the step that handles    *)
(* the request ends it with the Ok response {pca: [], error: "PCA is       *)
(* required"}, reads neither the credentials nor the registry and changes  *)
(* no shared state.                                                        *)
(***************************************************************************)
C5_EmptyPcaRequired ==
  [][(call' # call /\ call'.op = "transition" /\ call'.surface = "rpc"
        /\ call'.pca = <<>> /\ call'.pc # "idle")
      => /\ call'.pc = "done"
         /\ call'.response = [status |-> "Ok", pca |-> <<>>, error |-> <<"PCA is required">>]
         /\ call'.reads = {}
         /\ call'.creds = None
         /\ UNCHANGED <<bridges, credentials>>]_vars

C5_Witness ==
  /\ TransitionDone /\ call.surface = "rpc" /\ call.pca = <<>>
  /\ call.response.error = <<"PCA is required">>
  /\ credentials.version > 0
  /\ DOMAIN bridges # {}

(***************************************************************************)
(* C6  Exchange with an empty bridge_id or an empty credential: on both    *)
(* surfaces the handler answers (Ok on RPC, 400 with a body on HTTP) with  *)
(* an empty pca and a validation error, the bridge_id error when both are  *)
(* empty, and has consulted neither the registry nor the credentials.      *)
(***************************************************************************)
C6_ExchangeValidation ==
  (ExchangeDone /\ (call.bridge_id = "" \/ call.credential = <<>>))
    => /\ call.response.pca = <<>>
       /\ call.response.error =
            IF call.bridge_id = "" THEN <<"bridge_id is required">>
            ELSE <<"credential is required">>
       /\ call.response.status = IF call.surface = "rpc" THEN "Ok" ELSE "BAD_REQUEST"
       /\ call.reads = {}
       /\ call.bridge = None
       /\ call.creds = None

C6_Witness ==
  /\ ExchangeDone /\ call.surface = "http"
  /\ call.bridge_id = "" /\ call.credential = <<>>
  /\ call.response.error = <<"bridge_id is required">>

(***************************************************************************)
(* C7  Exchange with a non-empty bridge_id and credential: when, at the    *)
(* lookup, the id is absent from the registry or its entry is disabled,    *)
(* the lookup step ends the call with the not-found response (in the Ok    *)
(* response on RPC, with status 404 on HTTP), an empty pca, and without    *)
(* the credentials having been read.                                       *)
(***************************************************************************)
C7_BridgeNotFound ==
  [][(call' # call /\ call.op = "exchange" /\ call.pc = "get_enabled"
        /\ (call.bridge_id \notin DOMAIN bridges \/ ~bridges[call.bridge_id].enabled))
      => /\ call'.pc = "done"
         /\ call'.response.pca = <<>>
         /\ call'.response.error = <<"Bridge not found or disabled: ", call.bridge_id>>
         /\ call'.response.status = IF call.surface = "rpc" THEN "Ok" ELSE "NOT_FOUND"
         /\ "credentials" \notin call'.reads
         /\ call'.creds = None]_vars

C7_Witness ==
  /\ ExchangeDone /\ call.surface = "rpc"
  /\ call.reads = {"registry"}
  /\ call.bridge_id \in DOMAIN bridges /\ ~bridges[call.bridge_id].enabled
  /\ ErrorKind = "NotFound"

(***************************************************************************)
(* C8  Exchange on an enabled JWT bridge with a token none of whose        *)
(* audiences is among the bridge's allowed audiences fails with an         *)
(* Invalid-class error and an empty PCA.                                   *)
(***************************************************************************)
C8_AudienceRejected ==
  (ExchangeDone /\ call.bridge # None /\ InputCredential # <<>>
     /\ InputCredential[1].utf8
     /\ Range(InputCredential[1].aud) \cap Range(call.bridge[1].config.audiences) = {})
    => /\ ErrorKind = "Invalid"
       /\ OutputPca = <<>>

(***************************************************************************)
(* C9  Every Exchange and every Transition call that passes the request    *)
(* validation (and, for Exchange, finds its enabled bridge) has fetched    *)
(* the credentials snapshot from the manager during the call.              *)
(***************************************************************************)
C9_SnapshotFetchedAtCallTime ==
  (Done /\ ((call.op = "transition" /\ InputPca # <<>>)
            \/ (call.op = "exchange" /\ call.bridge # None)))
    => /\ "credentials" \in call.reads
       /\ call.creds # None

(***************************************************************************)
(* C10  Registry round trip: add(c) returns an id i, non-empty and equal   *)
(* to c.id when c.id is non-empty, and a get(i) that follows at once       *)
(* returns c with its id set to i.                                         *)
(***************************************************************************)
C10_AddThenGet ==
  last.op = "add"
    => LET c == last.config[1]
           r == last.result[1]
       IN  /\ r.ok
           /\ r.value # ""
           /\ c.id # "" => r.value = c.id
           /\ get(bridges, r.value) = Some([c EXCEPT !.id = r.value])

C10_Witness ==
  /\ last.op = "add"
  /\ last.config[1].id = ""
  /\ ~last.config[1].enabled
  /\ last.result[1].value \in DOMAIN bridges
  /\ Cardinality(DOMAIN bridges) > 1

(***************************************************************************)
(* C11  update(config) and remove(id) on an id that is not in the registry *)
(* fail with NotFound naming that id, and the step leaves the registry as  *)
(* it was: no entry is created, changed or removed.                        *)
(***************************************************************************)
C11_NotFoundLeavesRegistry ==
  [][(last'.op \in {"update", "remove"} /\ last'.id \notin DOMAIN bridges)
      => /\ last'.result = Some([ok |-> FALSE, value |-> <<"NotFound", last'.id>>])
         /\ bridges' = bridges]_vars

C11_Witness ==
  /\ last.op = "update"
  /\ ~last.result[1].ok
  /\ last.id # ""
  /\ last.id \notin DOMAIN bridges
  /\ DOMAIN bridges # {}

(***************************************************************************)
(* C12  After any sequence of add, update and remove, list() holds exactly *)
(* the live entries: one value per id added and not removed since, each    *)
(* the value get returns for its id, its length the number of live ids;    *)
(* after a successful remove(id) neither get(id) nor list() returns an     *)
(* entry of that id.                                                       *)
(***************************************************************************)
C12_ListIsLiveEntries ==
  LET listed == list(bridges)
  IN  /\ BagCardinality(listed) = Cardinality(live)
      /\ {e.id : e \in BagToSet(listed)} = live
      /\ \A e \in BagToSet(listed) : CopiesIn(e, listed) = 1 /\ get(bridges, e.id) = Some(e)
      /\ (last.op = "remove" /\ last.result[1].ok)
           => /\ get(bridges, last.id) = None
              /\ \A e \in BagToSet(listed) : e.id # last.id

C12_Witness ==
  /\ last.op = "remove"
  /\ last.result[1].ok
  /\ last.id \notin live
  /\ BagCardinality(list(bridges)) = 1

(***************************************************************************)
(* C13  Enabled-gating: for every id, get_enabled(id) returns the entry    *)
(* exactly when get(id) returns an entry with enabled = true, and then the *)
(* same entry; an entry stored with enabled = false is retained, get(id)   *)
(* returns it and get_enabled(id) returns nothing.                         *)
(***************************************************************************)
C13_EnabledGating ==
  /\ \A id \in Ids \cup {""} :
        /\ get_enabled(bridges, id) # None
             <=> (id \in DOMAIN bridges /\ bridges[id].enabled)
        /\ get_enabled(bridges, id) # None => get_enabled(bridges, id) = get(bridges, id)
        /\ (id \in DOMAIN bridges /\ ~bridges[id].enabled)
             => (get(bridges, id) = Some(bridges[id]) /\ get_enabled(bridges, id) = None)
  /\ (last.op \in {"add", "update"} /\ last.result[1].ok /\ ~last.config[1].enabled)
       => LET id == IF last.op = "add" THEN last.result[1].value ELSE last.id
          IN  /\ get(bridges, id) # None
              /\ ~get(bridges, id)[1].enabled
              /\ get_enabled(bridges, id) = None

C13_Witness ==
  /\ last.op = "update"
  /\ last.result[1].ok
  /\ ~last.config[1].enabled
  /\ get(bridges, last.id) = Some(last.config[1])
  /\ get_enabled(bridges, last.id) = None
  /\ \E id \in DOMAIN bridges : get_enabled(bridges, id) # None

C15_AddOverwritesExisting ==
  [][(last'.op = "add" /\ last'.id # "" /\ last'.id \in DOMAIN bridges)
      => LET c == last'.config[1]
         IN  /\ last'.result = Some([ok |-> TRUE, value |-> c.id])
             /\ get(bridges', c.id) = Some(c)
             /\ bridges' = update(bridges, c).bridges
             /\ Cardinality(DOMAIN bridges') = Cardinality(DOMAIN bridges)
             /\ \A k \in DOMAIN bridges \ {c.id} : get(bridges', k) = get(bridges, k)]_vars

C15_Witness ==
  /\ last.op = "add"
  /\ last.id = "b1"
  /\ last.id \in DOMAIN last.before
  /\ last.before[last.id] # last.config[1]
  /\ bridges[last.id] = last.config[1]
  /\ Cardinality(DOMAIN bridges) = 2

(***************************************************************************)
(* C16  list() and get() return copies taken at one point in time: what a  *)
(* caller holds from a completed list() or get() denotes the value it      *)
(* denoted at the return whatever add, update or remove ran since, and a   *)
(* list() result is the content of the registry as it stood between two    *)
(* write operations, never a mix of two of its states.                     *)
(***************************************************************************)
C16_ReturnedCopies ==
  \A t \in Tasks :
    (tasks[t].pc = "done" /\ tasks[t].op \in {"list", "get"})
      => /\ Denotes(tasks[t].op, tasks[t].result, bridges) = tasks[t].returned[1]
         /\ tasks[t].op = "list" => tasks[t].returned = tasks[t].expect

C16_Witness ==
  \E t \in Tasks :
    /\ tasks[t].pc = "done" /\ tasks[t].op = "list"
    /\ Cardinality(tasks[t].result) = 2
    /\ \E h \in tasks[t].result : h.key \in DOMAIN bridges /\ bridges[h.key] # h.value
    /\ \E h \in tasks[t].result : h.key \notin DOMAIN bridges

(***************************************************************************)
(* C17  Concurrent calls of the registry are linearizable: no caller is in *)
(* a write body together with another caller in any body; between the      *)
(* contains_key and the insert of an update the entry stays in the map, so *)
(* an update never re-creates an entry a remove deleted; every completed   *)
(* call returned what the call returns as one step on the map in the order *)
(* the guards were granted, and the map is the map those steps leave.      *)
(***************************************************************************)
C17_Linearizable ==
  LET InWrite == {t \in Tasks : tasks[t].pc \in {"body", "insert"} /\ tasks[t].op \in WriteOps}
      InRead == {t \in Tasks : tasks[t].pc \in {"body", "iter"} /\ tasks[t].op \in ReadOps}
  IN  /\ Cardinality(InWrite) <= 1
      /\ InWrite # {} => InRead = {}
      /\ \A t \in Tasks : tasks[t].pc = "insert" => tasks[t].id \in DOMAIN bridges
      /\ \A t \in Tasks : tasks[t].pc = "done" => tasks[t].returned = tasks[t].expect
      /\ InWrite = {} => bridges = lin

C17_Witness ==
  /\ tasks["t1"].pc = "done" /\ tasks["t1"].op = "remove" /\ tasks["t1"].result.ok
  /\ tasks["t2"].pc = "done" /\ tasks["t2"].op = "update"
  /\ tasks["t2"].id = tasks["t1"].id
  /\ tasks["t2"].result = [ok |-> FALSE, value |-> <<"NotFound", tasks["t1"].id>>]
  /\ tasks["t1"].id \notin DOMAIN bridges
  /\ DOMAIN bridges # {}

(***************************************************************************)
(* C18  Once the manager exists, current() returns the snapshot last       *)
(* handed to new() or update(): an update takes effect whether or not a    *)
(* subscriber holds a receiver, and current() returns it until the next    *)
(* update.                                                                 *)
(***************************************************************************)
C18_CurrentIsLatest ==
  CredentialsManager_current(credentials) = sent

C18_Witness ==
  /\ credentials.version = MaxVersion
  /\ \A s \in Subscribers : ~subs[s].open
  /\ CredentialsManager_current(credentials) = TrustPlaneCredentials("k2")

(***************************************************************************)
(* C19  Hot-reload snapshot isolation: the snapshot a reader obtained from *)
(* current() reads, through the Arc it keeps, field for field (did,        *)
(* organization, both keys, identity document, self-credential) as it read *)
(* at the call, whatever updates followed; and every snapshot a reader or  *)
(* subscriber reads is one whole published snapshot, never fields of two.  *)
(***************************************************************************)
C19_SnapshotIsolation ==
  /\ held # None
       => LET now == View(held[1].arc, credentials)
              then == held[1].taken
          IN  /\ now.did = then.did
              /\ now.organization = then.organization
              /\ now.issuer_key = then.issuer_key
              /\ now.cat_key = then.cat_key
              /\ now.did_document = then.did_document
              /\ now.credential = then.credential
              /\ now \in Snapshots
  /\ CredentialsManager_current(credentials) \in Snapshots
  /\ \A s \in Subscribers : subs[s].got # None => subs[s].got[1] \in Snapshots

C19_Witness ==
  /\ held # None
  /\ held[1].taken = TrustPlaneCredentials("k1")
  /\ credentials.version = MaxVersion
  /\ CredentialsManager_current(credentials) = TrustPlaneCredentials("k2")
  /\ View(held[1].arc, credentials).cat_key # CredentialsManager_current(credentials).cat_key

(***************************************************************************)
(* C20  subscribe() is latest-value-wins: a change notification delivered  *)
(* to a subscriber after two or more updates since the version it had seen *)
(* leaves no further notification pending, and every snapshot a subscriber *)
(* newly reads is the most recent one: no intermediate snapshot is         *)
(* delivered later, nothing is queued.                                     *)
(***************************************************************************)
C20_LatestValueWins ==
  [][\A s \in Subscribers :
       /\ (subs[s].open /\ subs'[s].open /\ subs'[s].version # subs[s].version
              /\ credentials.version - subs[s].version >= 2)
            => ~has_changed(credentials', subs'[s])
       /\ (subs'[s].open /\ subs'[s].got # subs[s].got)
            => subs'[s].got = Some(sent')]_vars

C20_Witness ==
  \E s \in Subscribers :
    /\ subs[s].open
    /\ subs[s].skipped >= 2
    /\ ~has_changed(credentials, subs[s])
    /\ subs[s].got = Some(sent)
    /\ sent # TrustPlaneCredentials("k1")

(***************************************************************************)
(* C21  Readers observe snapshots in publication order: the version a      *)
(* subscriber reads through its receiver, or a reader through current(),   *)
(* never goes back; a snapshot read at the channel's present version is    *)
(* the one last published; and a reader that keeps reading and is behind   *)
(* the channel's version catches up with it, so that after the last update *)
(* every such reader reads the last snapshot.                              *)
(***************************************************************************)
C21_PublicationOrder ==
  /\ [][/\ \A s \in Subscribers :
            (subs[s].open /\ subs'[s].open) => subs'[s].read >= subs[s].read
        /\ (held # None /\ held' # None) => held'[1].version >= held[1].version]_vars
  /\ [](/\ \A s \in Subscribers :
            (subs[s].got # None /\ subs[s].read = credentials.version)
              => subs[s].got = Some(sent)
        /\ (held # None /\ held[1].version = credentials.version)
              => held[1].taken = sent)
  /\ \A s \in Subscribers :
       (subs[s].open /\ (subs[s].got = None \/ subs[s].read < credentials.version))
         ~> (~subs[s].open \/ (subs[s].got # None /\ subs[s].read = credentials.version))
  /\ (held = None \/ held[1].version < credentials.version)
       ~> (held # None /\ held[1].version = credentials.version)

C21_Witness ==
  /\ credentials.version = MaxVersion
  /\ sent # TrustPlaneCredentials("k1")
  /\ held # None /\ held[1].version = MaxVersion /\ held[1].taken = sent
  /\ \E s \in Subscribers :
       subs[s].open /\ subs[s].read = MaxVersion /\ subs[s].got = Some(sent)

(***************************************************************************)
(* C22  A provider's watch that fails during start_watch is handled by the *)
(* manager: the error is logged, the manager keeps its credentials and     *)
(* current() returns the snapshot last published.                          *)
(***************************************************************************)
C22_WatchErrorHandled ==
  (watcher # None /\ ~watcher[1].ok)
    => /\ log # {}
       /\ CredentialsManager_current(credentials) \in Snapshots
       /\ CredentialsManager_current(credentials) = sent

(***************************************************************************)
(* C23  The process shuts down exactly at the first of: the HTTP surface   *)
(* ends with an error, the RPC surface ends with an error, a signal        *)
(* arrives.  Server::run returns normally if and only if one of these      *)
(* events occurred; the surfaces stop at the step of the event, together;  *)
(* the event recorded is the first; after it neither surface serves and no *)
(* request is accepted; and the process then exits.                        *)
(***************************************************************************)
C23_ShutdownOnFirstEvent ==
  /\ [](/\ server.result = "Ok" <=> server.event \in ShutdownEvents
        /\ server.event # ""
             => /\ server.phase \in {"returned", "exited"}
                /\ server.http # "serving"
                /\ server.grpc # "serving")
  /\ [][/\ (Serving /\ ~Serving') => (server.event = "" /\ server'.event \in ShutdownEvents)
        /\ server.event # ""
             => /\ server'.event = server.event
                /\ (call.pc \in {"idle", "done"} => call' = call)]_vars
  /\ (server.event # "") ~> (server.phase = "exited")

C23_Witness ==
  /\ server.event = "http_error"
  /\ server.phase = "exited"
  /\ server.grpc = "stopped"
  /\ "HTTP server error" \in log

(***************************************************************************)
(* C24  With a shutdown grace period configured, a request in flight at    *)
(* the shutdown event is not cut off: the process does not exit while a    *)
(* handler that would finish within the grace period is still running.     *)
(***************************************************************************)
C24_GracefulShutdown ==
  server_config.shutdown_grace_period.secs > 0 => call.pc # "aborted"

(***************************************************************************)
(* C25  The admin surface is off by default, and with bridge_admin_enabled *)
(* false no admin operation is registered on either surface: no HTTP route *)
(* leads to an admin path, the RPC server has no BridgeAdminService, no    *)
(* admin request is routed to a handler or answered with registry          *)
(* contents, and the registry stays as it was constructed.                 *)
(***************************************************************************)
C25_AdminOffByDefault ==
  /\ ~Config_try_from(Cli_default).bridge_admin_enabled
  /\ ~server_config.bridge_admin_enabled
       => /\ \A r \in server.routes : r[2] \notin AdminPaths
          /\ "BridgeAdminService" \notin server.services
          /\ ~admin.routed
          /\ admin.response.listed = <<>>
          /\ admin.response.bridge = None
          /\ admin.response.id = ""
          /\ ~admin.response.success
          /\ bridges = BridgeRegistry_new

C25_Witness ==
  /\ ~server_config.bridge_admin_enabled
  /\ admin.surface = "rpc"
  /\ admin.op = "add"
  /\ admin.bridge # None
  /\ admin.response.status = "UNIMPLEMENTED"
  /\ call.pc = "done"

(***************************************************************************)
(* C26  With the admin surface enabled, each of List, Get, Add, Update and *)
(* Remove has an HTTP route, and an HTTP admin request leaves the registry *)
(* as the RPC operation with the same arguments would.                     *)
(***************************************************************************)
C26_HttpMirrorsRpc ==
  [][(/\ server_config.bridge_admin_enabled
      /\ admin'.surface = "http"
      /\ <<admin, bridges>>' # <<admin, bridges>>)
       => /\ admin'.routed
          /\ bridges' = BridgeAdminService(AdminOperation(admin'.method, admin'.path),
                                           bridges, admin'.id, admin'.bridge,
                                           AdminUuid).bridges]_vars

(***************************************************************************)
(* C27  The manager exists only from a successful load.  Wherever a        *)
(* server is constructed, a surface bound or a request taken, the manager  *)
(* holds a valid snapshot, the one loaded; and without a manager the       *)
(* process is before Server::new or has failed: nothing was bound, no      *)
(* request was taken, the result is an error and the exit status, once     *)
(* the process has exited, is 1 with the error logged.                     *)
(***************************************************************************)
C27_ActiveOnlyFromLoad ==
  /\ (\/ server.phase \in {"new", "select", "serving"}
      \/ server.http # "unbound"
      \/ server.grpc # "unbound"
      \/ call # NoCall)
       => /\ credentials # None
          /\ CredentialsManager_current(credentials) \in Snapshots
          /\ CredentialsManager_current(credentials) = sent
  /\ credentials = None
       => /\ server.phase \in {"main", "returned", "exited"}
          /\ server.http = "unbound"
          /\ server.grpc = "unbound"
          /\ server.routes = {}
          /\ server.services = {}
          /\ call = NoCall
          /\ server.phase # "main" => server.result = "Err"
          /\ server.phase = "exited" => (server.exit = Some(1) /\ "Server error" \in log)

C27_Witness ==
  /\ credentials = None
  /\ server.phase = "exited"
  /\ server.exit = Some(1)

(***************************************************************************)
(* C28  A protocol server that cannot bind or start is fatal, the HTTP     *)
(* listener and the RPC server alike: Server::run ends with an error and   *)
(* the process exits with status 1.                                        *)
(***************************************************************************)
C28_BringUpFailureFatal ==
  (server.failed # "" /\ server.phase \in {"returned", "exited"})
    => /\ server.result = "Err"
       /\ server.phase = "exited" => server.exit = Some(1)

(***************************************************************************)
(* C29  An error reaches the caller as a categorized message only: the     *)
(* status a Crypto error maps to is internal and its message does not      *)
(* contain the error's detail, and no response carries the text of a       *)
(* parser or library error.                                                *)
(***************************************************************************)
C29_CategorizedErrors ==
  /\ \A detail \in {"signature mismatch", "invalid key"} :
       LET status == Status_from(<<"Crypto", detail>>)
       IN  status.code = "INTERNAL" /\ detail \notin Range(status.message)
  /\ Done => "DecodeError" \notin Range(call.response.error)

(***************************************************************************)
(* C30  A failing request is contained to its response: the step in which  *)
(* a Transition, Exchange or admin request is answered with an error       *)
(* leaves the registry, the credentials and the process as they were, both *)
(* surfaces still serving.                                                 *)
(***************************************************************************)
C30_FailureContained ==
  [][/\ (call' # call /\ call'.pc = "done" /\ call'.response.error # <<>>)
          => (UNCHANGED <<bridges, credentials, server>> /\ Serving')
     /\ (admin' # admin
         /\ (admin'.response.error # <<>> \/ admin'.response.status # "OK"))
          => (UNCHANGED <<bridges, credentials, server>> /\ Serving')]_vars

C30_Witness ==
  /\ admin.surface = "rpc"
  /\ admin.op = "update"
  /\ admin.response.error = <<"not found: ", "b1">>
  /\ bridges # BridgeRegistry_new
  /\ call.pc = "done"
  /\ call.response.error # <<>>

(***************************************************************************)
(* C35  An Exchange that has obtained its bridge configuration from        *)
(* get_enabled keeps that copy: no later step of the call changes it,      *)
(* whatever is written to the registry meanwhile, and the call ends with   *)
(* an outcome of exchange_jwt, never with the bridge-not-found outcome.    *)
(* Registry writes take effect while the call is in flight, as the lock    *)
(* is released when get_enabled returns.                                   *)
(***************************************************************************)
C35_CapturedBridge ==
  [][(call.op = "exchange" /\ call.pc \in {"exchange_jwt", "from_utf8"})
       => /\ call.bridge # None
          /\ call'.bridge = call.bridge
          /\ call'.pc \in {"exchange_jwt", "from_utf8", "done"}
          /\ call'.pc = "done"
               => call'.response.error \in {<<"Invalid UTF-8 in credential">>,
                                            <<"JWT bridge not fully implemented">>}]_vars

C35_Witness ==
  /\ ExchangeDone /\ call.surface = "rpc"
  /\ call.bridge # None
  /\ get_enabled(bridges, call.bridge_id) # call.bridge
  /\ call.response.error = <<"JWT bridge not fully implemented">>

(***************************************************************************)
(* C36  In every response of Transition and Exchange, on both surfaces,    *)
(* exactly one of pca and error is non-empty.                              *)
(***************************************************************************)
C36_PcaXorError ==
  Done => ((call.response.pca = <<>>) # (call.response.error = <<>>))

C36_Witness ==
  /\ TransitionDone /\ call.surface = "http"
  /\ InputPca # <<>>
  /\ call.response.pca = <<>>
  /\ call.response.error = <<"Not implemented">>

(***************************************************************************)
(* C39  In every registry state each stored entry's id is non-empty and    *)
(* equal to the key it is stored under; list() holds no two entries with   *)
(* the same id, and an update with an empty id fails with NotFound.        *)
(***************************************************************************)
C39_IdIsKey ==
  /\ \A k \in DOMAIN bridges : k # "" /\ bridges[k].id = k
  /\ \A v \in DOMAIN list(bridges) :
       /\ list(bridges)[v] = 1
       /\ \A w \in DOMAIN list(bridges) : v.id = w.id => v = w
  /\ (last.op = "update" /\ last.id = "")
       => last.result = Some([ok |-> FALSE, value |-> <<"NotFound", "">>])

C39_Witness ==
  /\ last.op = "update" /\ last.id = ""
  /\ last.result = Some([ok |-> FALSE, value |-> <<"NotFound", "">>])
  /\ Cardinality(DOMAIN bridges) = 2
  /\ \E k \in DOMAIN bridges : k \in UuidStrings

(***************************************************************************)
(* C40  The seen-version of the manager's own receiver is never advanced.  *)
(* A receiver handed out by subscribe() has a change pending at once if    *)
(* and only if an update was published before; a receiver with nothing     *)
(* pending gets a change pending only by the next update; and what a       *)
(* subscriber reads is the latest snapshot.                                *)
(***************************************************************************)
C40_SubscribeFromInitial ==
  [][/\ credentials.seen = 0 /\ credentials'.seen = 0
     /\ \A s \in Subscribers :
          /\ (~subs[s].open /\ subs'[s].open)
               => (has_changed(credentials', subs'[s]) <=> credentials.version > 0)
          /\ (subs[s].open /\ subs'[s].open
              /\ ~has_changed(credentials, subs[s])
              /\ has_changed(credentials', subs'[s]))
               => credentials'.version = credentials.version + 1
          /\ (subs'[s].open /\ subs'[s].got # subs[s].got)
               => subs'[s].got = Some(sent)]_vars

C40_Witness ==
  /\ credentials.version = MaxVersion
  /\ subs["s1"].open /\ ~has_changed(credentials, subs["s1"])
  /\ subs["s2"].open /\ has_changed(credentials, subs["s2"])
  /\ subs["s2"].version = credentials.seen
  /\ subs["s2"].got = Some(sent)
  /\ subs["s2"].read = credentials.version

(***************************************************************************)
(* C37  With bridge_admin_enabled false the registry is empty in every     *)
(* state of the running server, and every Exchange with a non-empty        *)
(* bridge_id and credential ends with the bridge-not-found outcome.        *)
(***************************************************************************)
C37_NoAdminNoBridge ==
  ~server_config.bridge_admin_enabled
    => /\ DOMAIN bridges = {}
       /\ (ExchangeDone /\ call.bridge_id # "" /\ call.credential # <<>>)
            => /\ call.bridge = None
               /\ call.response.error = <<"Bridge not found or disabled: ", call.bridge_id>>
               /\ call.response.pca = <<>>
               /\ call.surface = "http" => call.response.status = "NOT_FOUND"

C37_Witness ==
  /\ ~server_config.bridge_admin_enabled
  /\ admin.op = "add" /\ admin.bridge # None
  /\ ExchangeDone /\ call.surface = "http"
  /\ call.bridge_id = "b1" /\ call.credential = NotBase64
  /\ call.response.status = "NOT_FOUND"

(***************************************************************************)
(* C34  No response and no Debug rendering of a KeyPair holds a private    *)
(* key component: the JWKs of the two discovery documents have no member   *)
(* d and no member equal to a private component, the same holds of the     *)
(* other members of the documents, of the Debug rendering of both keys and *)
(* of the Transition and Exchange responses, while the private export does *)
(* carry the component.                                                    *)
(***************************************************************************)
C34_NoPrivateKeyDisclosed ==
  credentials # None
    => LET creds == CredentialsManager_current(credentials)
           keys == {creds.issuer_key, creds.cat_key}
           private == {private_key_bytes(k) : k \in keys}
           body == discovery.body[1]
           jwks == IF discovery.path = "/.well-known/did.json"
                   THEN {m.publicKeyJwk : m \in Range(body.verificationMethod)}
                   ELSE {body.issuer_public_key, body.cat_public_key}
       IN  /\ discovery.body # None
             => /\ \A j \in jwks :
                     /\ "d" \notin DOMAIN j
                     /\ j.x \notin private /\ j.kid \notin private
                /\ discovery.path = "/.well-known/trustplane.json"
                     => /\ body.issuer_kid \notin private
                        /\ body.cat_kid \notin private
                        /\ body.credential
                             = create_self_credential(creds.did, creds.organization,
                                                      creds.issuer_key)
                /\ discovery.path = "/.well-known/did.json"
                     => \A m \in Range(body.verificationMethod) : m.id \notin private
           /\ \A k \in keys :
                /\ "signing_key" \notin DOMAIN KeyPair_fmt(k)
                /\ KeyPair_fmt(k).kid \notin private
                /\ KeyPair_fmt(k).public_key = "[REDACTED]"
                /\ private_jwk(k).d \in private
           /\ Done => /\ call.response.pca = <<>>
                      /\ \A f \in Range(call.response.error) : f \in STRING

C34_Witness ==
  /\ discovery.path = "/.well-known/trustplane.json"
  /\ discovery.body # None
  /\ discovery.body[1].cat_public_key.x = <<"public", <<"cat", "k1">>>>
  /\ ExchangeDone /\ call.bridge # None

(***************************************************************************)
(* C38  In the server as wired nothing publishes after startup: the        *)
(* channel keeps the snapshot Server::new loaded at its first version, no  *)
(* watcher and no subscriber exists, every current() of a handler returned *)
(* that snapshot, and the identity document and the key ids the discovery  *)
(* endpoints publish are those of that snapshot.                           *)
(***************************************************************************)
C38_OneSnapshotPerProcess ==
  /\ watcher = None
  /\ \A s \in Subscribers : ~subs[s].open
  /\ credentials # None
       => /\ credentials.version = 0
          /\ CredentialsManager_current(credentials) = sent
          /\ call.creds # None => call.creds = Some(sent)
          /\ (discovery.body # None /\ discovery.path = "/.well-known/did.json")
               => discovery.body = Some(to_json(sent.did_document))
          /\ (discovery.body # None /\ discovery.path = "/.well-known/trustplane.json")
               => /\ discovery.body[1].issuer_kid = sent.issuer_key.kid
                  /\ discovery.body[1].cat_kid = sent.cat_key.kid
                  /\ discovery.body[1].did = sent.did

C38_Witness ==
  /\ server.phase = "returned"
  /\ discovery.path = "/.well-known/did.json"
  /\ discovery.body = Some(to_json(sent.did_document))
  /\ TransitionDone /\ call.creds = Some(sent)

(***************************************************************************)
(* C31  In every credentials snapshot that is ever current, every id listed *)
(* in the identity document's assertionMethod and authentication is the id *)
(* of an entry of its verificationMethod.                                  *)
(***************************************************************************)
C31_MethodReferencesResolve ==
  credentials # None
    => LET doc == CredentialsManager_current(credentials).did_document
       IN  \A id \in Range(doc.assertion_method) \cup Range(doc.authentication) :
             \E i \in DOMAIN doc.verification_method : doc.verification_method[i].id = id

(***************************************************************************)
(* C32  In every credentials snapshot that is ever current, the issuer key *)
(* and the CAT key have ids under the snapshot's did, and the identity     *)
(* document has that did and lists both keys.                              *)
(***************************************************************************)
C32_KeysBelongToIdentity ==
  credentials # None
    => LET creds == CredentialsManager_current(credentials)
       IN  /\ creds.did_document.id = creds.did
           /\ \A key \in {creds.issuer_key, creds.cat_key} :
                /\ key.kid[1] = creds.did
                /\ \E i \in DOMAIN creds.did_document.verification_method :
                     creds.did_document.verification_method[i].id = key.kid

(***************************************************************************)
(* C33  A kid identifies one key: a key pair of a snapshot a reader still  *)
(* holds and a key pair of the current snapshot that carry the same kid    *)
(* have the same key material.                                             *)
(***************************************************************************)
C33_KidIdentifiesKey ==
  (credentials # None /\ held # None)
    => LET now == CredentialsManager_current(credentials)
           then == held[1].taken
       IN  \A a \in {then.issuer_key, then.cat_key}, b \in {now.issuer_key, now.cat_key} :
             a.kid = b.kid => a.signing_key = b.signing_key

====
